---- MODULE Spec2Model ----
(***************************************************************************)
(* Website Notes (side-notes): the local note store (utils/storage), the   *)
(* panel hook useMemos with its debounced autosave, and the background     *)
(* badge / context-menu notifier.                                          *)
(*                                                                         *)
(* Conventions.                                                            *)
(*  - An async function is a task with a program counter; every `await`   *)
(*    of a browser API call is a step boundary.  The effect of the awaited *)
(*    call (the read of chrome.storage, the write to it, setBadgeText)     *)
(*    happens in the step in which the await resolves, followed by the     *)
(*    synchronous code up to the next await.                               *)
(*  - MemoStore (Record<string, Memo>) is a pair: `keys`, the property     *)
(*    keys in the order Object.values walks them (canonical array-index   *)
(*    keys first, ascending by value, then the other keys in insertion     *)
(*    order), and `vals`, the key -> record mapping.  An object read from   *)
(*    chrome.storage.local has its other keys in byte order instead.       *)
(***************************************************************************)
EXTENDS Integers, Sequences, FiniteSets, TLC

VARIABLES
    \* ---- utils/storage and whoever calls it directly
    isExtension,   \* chrome.storage.local is present (extension host) or not
    store,         \* the value under the single top-level key 'memos'
    calls,         \* per calling surface: the storage call it has in flight
    ret,           \* per calling surface: what its last completed call returned
    overlapped,    \* history: some call was issued while another was in flight
    expected,      \* history: id -> record, each write applied at its completion
    lastWrite,     \* history: the write that completed last, and the store before it
    issued,        \* history: how many storage calls the surfaces have issued
    \* ---- background service worker (badge / context menu notifier)
    listening,     \* the background's listeners are registered
    tabs,          \* browser: tab id -> [url]
    focused,       \* browser: the active tab of the current window
    badge,         \* browser: tab id -> badge text of the extension's icon
    menuTitle,     \* browser: title of the context-menu item "domain-memo-action"
    handlers,      \* the listener invocations in flight
    lastDone,      \* history: the listener invocation that ended last, if it ran
                   \* with no other event between its event and its end
    tabEvents,     \* history: how many tab events the browser has fired
    \* ---- side panel: App with the hook useMemos
    mounted,       \* the panel component is mounted
    currentDomain, \* useCurrentDomain: hostname of the active tab, or null
    viewMode,      \* App state: 'domain' | 'all'
    panelMemos,    \* useMemos state `memos`: the in-memory note list
    activeMemoId,  \* useMemos state: id of the selected note, or null
    saveTimeoutRef,\* useMemos ref: handle of the last autosave timer, 0 for null
    timers,        \* browser: the pending timers set by the panel
    nextHandle,    \* browser: the handle the next setTimeout returns
    clock,         \* browser: Date.now(), in ms
    fetch,         \* the fetchMemos of the live effect, while it awaits the store
    deleting,      \* the hook's deleteMemo calls in flight, by slot
    queued,        \* React: the state updates queued for the next render
    effectOf,      \* React: the render whose effects ran last
    hist,          \* history: the last edit and what became of its timer
    switches,      \* history: how many times the user or the browser changed
                   \* what the panel shows, or the user deleted a note
    \* ---- side panel: useCurrentDomain, createMemo, the message listener
    currentUrl,    \* useCurrentDomain: URL of the active tab, or null
    currentTitle,  \* useCurrentDomain: title of the active tab, or null
    resolving,     \* how many updateTabInfo calls await chrome.tabs.query
    titles,        \* browser: tab id -> title
    nextId,        \* history: how many ids uuidv4 has generated, plus one
    creating,      \* the hook's createMemo calls in flight, by slot
    \* ---- context-menu click: background to panel
    clicks,        \* the context-menu clicks so far, each with its handler's state
    panelOpen,     \* browser: the tabs chrome.sidePanel.open was resolved for
    inbox,         \* the messages dispatched to the panel's listener, not yet handled
    \* ---- options page
    importing      \* handleImportFile's reader.onload calls, by slot

storeVars == <<isExtension, store, calls, ret, overlapped, expected, lastWrite, issued>>
bgVars == <<listening, tabs, focused, badge, menuTitle, handlers, lastDone, tabEvents>>
panelVars == <<mounted, currentDomain, viewMode, panelMemos, activeMemoId, saveTimeoutRef,
               timers, nextHandle, clock, fetch, deleting, queued, effectOf, hist,
               switches>>
extVars == <<currentUrl, currentTitle, resolving, titles, nextId, creating,
             clicks, panelOpen, inbox, importing>>
vars == <<storeVars, bgVars, panelVars, extVars>>

----------------------------------------------------------------------------
(* Values *)

Range(s) == {s[i] : i \in DOMAIN s}

\* types: interface Memo
Memo(id, title, content, domain, url, createdAt, updatedAt) ==
    [id |-> id, title |-> title, content |-> content, domain |-> domain,
     url |-> url, isUrlSpecific |-> FALSE,
     createdAt |-> createdAt, updatedAt |-> updatedAt]

\* `result.memos || {}` and `raw ? JSON.parse(raw) : {}`: the empty MemoStore
EmptyStore == [keys |-> <<>>, vals |-> [k \in {} |-> k]]

\* storage that has no 'memos' key yet (a fresh install, localStorage without
\* the item): every read takes it for the empty MemoStore, and the first
\* write, be it of {}, changes the stored value
NoMemos == [keys |-> <<>>, vals |-> [k \in {} |-> k], absent |-> TRUE]

\* result.memos || {}, getLocalStore(): the MemoStore a read of st returns
MemosOf(st) == [keys |-> st.keys, vals |-> st.vals]

\* the array indices the ids of the model go up to, and the largest one there is
MaxIndex == 42
LargestIndex == "4294967294"

\* the place of a key that is a canonical array index ("0", "3", "42", up to
\* 2^32 - 2) among the array indices, and -1 for every other key ("m1", "01",
\* a uuid): own property keys are walked with the array indices first, in
\* ascending numeric order
ArrayIndex(key) ==
    IF key \in {ToString(n) : n \in 0..MaxIndex}
    THEN CHOOSE n \in 0..MaxIndex : ToString(n) = key
    ELSE IF key = LargestIndex THEN MaxIndex + 1
    ELSE -1

\* the keys with `key` added: an array index goes after the smaller array
\* indices and before every other key, any other key goes last
KeysWith(keys, key) ==
    IF ArrayIndex(key) < 0 THEN Append(keys, key)
    ELSE LET n == Cardinality({i \in DOMAIN keys :
                                  /\ ArrayIndex(keys[i]) >= 0
                                  /\ ArrayIndex(keys[i]) < ArrayIndex(key)})
         IN  SubSeq(keys, 1, n) \o <<key>> \o SubSeq(keys, n + 1, Len(keys))

\* variant: an assignment that adds the key again when it is already there
PutKeyAppendAlways(memos, key, memo) ==
    [keys |-> Append(memos.keys, key),
     vals |-> [k \in DOMAIN memos.vals \cup {key} |->
                  IF k = key THEN memo ELSE memos.vals[k]]]

\* memos[key] = memo: an existing key keeps its place, a new key goes where
\* the key order puts it
PutKey(memos, key, memo) ==
    [keys |-> IF key \in DOMAIN memos.vals THEN memos.keys
              ELSE KeysWith(memos.keys, key),
     vals |-> [k \in DOMAIN memos.vals \cup {key} |->
                  IF k = key THEN memo ELSE memos.vals[k]]]

\* variant: the record is marked instead of removed
DeleteKeyTombstone(memos, key) ==
    [keys |-> memos.keys,
     vals |-> [k \in DOMAIN memos.vals |->
                  IF k = key THEN [memos.vals[k] EXCEPT !.content = "deleted"]
                  ELSE memos.vals[k]]]

\* delete memos[key]
DeleteKey(memos, key) ==
    [keys |-> SelectSeq(memos.keys, LAMBDA k : k # key),
     vals |-> [k \in DOMAIN memos.vals \ {key} |-> memos.vals[k]]]

\* Object.values(memos)
ObjectValues(memos) == [i \in 1..Len(memos.keys) |-> memos.vals[memos.keys[i]]]

\* the ids of the model that are no array indices, in the order of their bytes
ByteOrder ==
    <<"", "a", "b", "b2", "b3", "b4", "b5", "b6", "c1", "c2", "c3", "c4", "c5", "c6",
      "d2", "d3", "d4", "d5", "d6", "m1", "m2", "m3", "n1", "n2", "n3", "x1", "x2", "x3">>

\* key a comes before key b in the object chrome.storage.local.get hands
\* back: the stored dictionary keeps its keys in byte order, and the object
\* made of it is walked with the array indices first
KeyBefore(a, b) ==
    LET ByteRank(k) == CHOOSE i \in DOMAIN ByteOrder : ByteOrder[i] = k
    IN  IF ArrayIndex(a) >= 0
        THEN ArrayIndex(b) < 0 \/ ArrayIndex(a) < ArrayIndex(b)
        ELSE ArrayIndex(b) < 0 /\ ByteRank(a) < ByteRank(b)

\* what `(await chrome.storage.local.get('memos')).memos` is after
\* `chrome.storage.local.set({ memos })`: the same records, the keys in the
\* order of the stored dictionary, whatever order they were written in
ChromeStored(memos) ==
    LET ids == DOMAIN memos.vals
    IN  [keys |-> [i \in 1..Cardinality(ids) |->
                      CHOOSE k \in ids :
                          Cardinality({j \in ids : KeyBefore(j, k)}) = i - 1],
         vals |-> memos.vals]

\* (a, b) => b.updatedAt - a.updatedAt
byUpdatedAtDesc(a, b) == b.updatedAt - a.updatedAt

\* variant: x goes before the elements it ties with
InsertSortedUnstable(sorted, x) ==
    LET before == {i \in 1..Len(sorted) : byUpdatedAtDesc(sorted[i], x) < 0}
        n == Cardinality(before)
    IN  SubSeq(sorted, 1, n) \o <<x>> \o SubSeq(sorted, n + 1, Len(sorted))

\* One insertion of a stable sort: x, which came later in the input, goes
\* behind every element the comparator does not put after it.
InsertSorted(sorted, x) ==
    LET before == {i \in 1..Len(sorted) : byUpdatedAtDesc(sorted[i], x) <= 0}
        n == Cardinality(before)
    IN  SubSeq(sorted, 1, n) \o <<x>> \o SubSeq(sorted, n + 1, Len(sorted))

\* Array.prototype.sort((a, b) => b.updatedAt - a.updatedAt): stable
RECURSIVE SortByUpdatedAtDesc(_)
SortByUpdatedAtDesc(list) ==
    IF Len(list) = 0 THEN <<>>
    ELSE InsertSorted(SortByUpdatedAtDesc(SubSeq(list, 1, Len(list) - 1)),
                      list[Len(list)])

\* variant: a comparison that ignores case
SameDomainIgnoreCase(a, b) ==
    LET lower(s) == IF s = "Example.com" THEN "example.com" ELSE s
    IN  lower(a) = lower(b)

\* memo.domain === domain
SameDomain(a, b) == a = b

\* Object.values(memos).filter(...).sort(...)
getMemosByDomainOf(memos, domain) ==
    SortByUpdatedAtDesc(
        SelectSeq(ObjectValues(memos), LAMBDA m : SameDomain(m.domain, domain)))

\* Object.values(memos)
getAllMemosOf(memos) == ObjectValues(memos)

----------------------------------------------------------------------------
(* Pages and the background's pure parts *)

\* tab.url of a tab that exposes no URL (undefined)
NoUrl == "<undefined>"

UrlA == "https://example.com/a"
UrlB == "https://example.com/b"
Urls == {UrlA, UrlB}

\* new URL(url).hostname
Hostname(url) ==
    CASE url = UrlA -> "example.com"
      [] url = UrlB -> "example.com"
      [] OTHER -> "other.org"

\* variant: no URL check
TruthyAlways(url) == TRUE

\* JavaScript truthiness of tab.url / url: undefined and '' are falsy
Truthy(url) == url # NoUrl /\ url # ""

\* variant: every note of the page's site counts
MatchCountByDomain(memoList, url) ==
    Cardinality({i \in DOMAIN memoList : Hostname(memoList[i].url) = Hostname(url)})

\* memoList.filter(m => m.url === url).length
MatchCount(memoList, url) ==
    Cardinality({i \in DOMAIN memoList : memoList[i].url = url})

\* matchCount > 0 ? String(matchCount) : ''
BadgeTextOf(matchCount) == IF matchCount > 0 THEN ToString(matchCount) ELSE ""

MenuCreate == "Create Note for this Page"
MenuOpen == "Open Note for this Page"

\* variant: the title never changes
MenuTitleAlwaysCreate(matchCount) == MenuCreate

\* matchCount > 0 ? "Open Note for this Page" : "Create Note for this Page"
MenuTitleOf(matchCount) == IF matchCount > 0 THEN MenuOpen ELSE MenuCreate

\* at most this many listener invocations are in flight at once
MaxHandlers == 2

HandlerIds == 1..MaxHandlers
Tabs == {1, 2}

IdleHandler == [pc |-> "idle"]
NoneDone == [kind |-> "none"]

Busy(h) == handlers[h].pc # "idle"
HasFree == \E h \in HandlerIds : ~Busy(h)
FreeSlot == CHOOSE h \in HandlerIds : ~Busy(h) /\ \A g \in HandlerIds : g < h => Busy(g)

\* history: invocation rec has seen another event between its own and now
Disturbed(rec) == [rec EXCEPT !.solo = FALSE, !.prevBadge = "", !.prevMenu = ""]

\* an event starts listener invocation rec; history: every invocation in
\* flight has now seen another event
Spawn(rec) ==
    /\ HasFree
    /\ handlers' = [h \in HandlerIds |->
                       IF h = FreeSlot
                       THEN IF \A g \in HandlerIds : ~Busy(g) THEN rec ELSE Disturbed(rec)
                       ELSE IF Busy(h) THEN Disturbed(handlers[h])
                       ELSE handlers[h]]

\* an event that starts no invocation
Disturb ==
    handlers' = [h \in HandlerIds |->
                    IF Busy(h) THEN Disturbed(handlers[h]) ELSE handlers[h]]

\* chrome.storage.local.set({ memos }) / setLocalStorage: the stored map is
\* replaced (chrome.storage keeps the records, not the order their keys were
\* written in; the JSON text of localStorage keeps both);
\* chrome.storage.onChanged fires when the value changed, and the
\* background's listener starts (its body up to `await chrome.tabs.query`)
StorageSet(memos) ==
    /\ store' = IF isExtension THEN ChromeStored(memos) ELSE memos
    /\ IF listening /\ store' # store
       THEN /\ Spawn([kind |-> "changed", pc |-> "tabs_query", tab |-> 0,
                      url |-> NoUrl, count |-> 0, solo |-> TRUE, prevBadge |-> "",
                      prevMenu |-> menuTitle])
            /\ lastDone' = NoneDone
       ELSE UNCHANGED <<handlers, lastDone>>
    /\ UNCHANGED <<listening, tabs, focused, badge, menuTitle, tabEvents>>

----------------------------------------------------------------------------
(* utils/storage: saveMemo, deleteMemo, getAllMemos, getMemosByDomain, as   *)
(* called by a surface p (the panel, the options page).                     *)

Callers == {"panel", "options"}

\* the surfaces issue at most this many storage calls in one run
MaxCalls == 4

\* with the background listening, at most this many storage calls are issued
\* and tab events fired in one run
MaxEvents == 3

\* a further storage call or tab event may happen
MayHappen == IF listening THEN issued + tabEvents < MaxEvents ELSE issued < MaxCalls

Idle == [op |-> "idle"]
NoRet == [op |-> "none"]
NoWrite == [op |-> "none"]

InFlight(p) == calls[p].op # "idle"
OthersInFlight(p) == \E q \in DOMAIN calls \ {p} : InFlight(q)

\* p issues call c; history: a call issued while another is in flight overlaps it
Issue(p, c) ==
    /\ calls[p] = Idle
    /\ MayHappen
    /\ issued' = issued + 1
    /\ calls' = [q \in DOMAIN calls |->
                    IF q = p THEN c
                    ELSE IF InFlight(q) THEN [calls[q] EXCEPT !.alone = FALSE]
                    ELSE calls[q]]
    /\ overlapped' = (overlapped \/ OthersInFlight(p))
    /\ ret' = [ret EXCEPT ![p] = NoRet]

\* history kept when a write completes
WriteDone(p, op, key, memo) ==
    /\ lastWrite' = [op |-> op, by |-> p, key |-> key, prev |-> store,
                     alone |-> IF InFlight(p) THEN calls[p].alone ELSE TRUE]
    /\ expected' = IF op = "save"
                   THEN [k \in DOMAIN expected \cup {key} |->
                            IF k = key THEN memo ELSE expected[k]]
                   ELSE [k \in DOMAIN expected \ {key} |-> expected[k]]

\* saveMemo, isExtension: up to `await chrome.storage.local.get('memos')`
saveMemo(p, memo) ==
    /\ isExtension
    /\ Issue(p, [op |-> "save", pc |-> "get", memo |-> memo,
                 memos |-> EmptyStore, alone |-> ~OthersInFlight(p)])
    /\ UNCHANGED <<isExtension, store, expected, lastWrite>>
    /\ UNCHANGED bgVars

\* a surface other than the panel hook calls saveMemo
SaveMemoCall(p, memo) == saveMemo(p, memo) /\ UNCHANGED panelVars /\ UNCHANGED extVars

\* the get resolves; memos[memo.id] = memo; chrome.storage.local.set({ memos })
SaveMemoGet(p) ==
    /\ calls[p].op = "save" /\ calls[p].pc = "get"
    /\ calls' = [calls EXCEPT ![p].pc = "set",
                              ![p].memos = PutKey(store, calls[p].memo.id, calls[p].memo)]
    /\ UNCHANGED <<isExtension, store, ret, overlapped, expected, lastWrite, issued>>
    /\ UNCHANGED bgVars
    /\ UNCHANGED panelVars
    /\ UNCHANGED extVars

\* the set resolves: the whole map the call holds replaces the stored one
SaveMemoSetResolves(p) ==
    /\ calls[p].op = "save" /\ calls[p].pc = "set"
    /\ StorageSet(calls[p].memos)
    /\ WriteDone(p, "save", calls[p].memo.id, calls[p].memo)
    /\ calls' = [calls EXCEPT ![p] = Idle]
    /\ ret' = [ret EXCEPT ![p] = [op |-> "save"]]
    /\ UNCHANGED <<isExtension, overlapped, issued>>

\* a saveMemo completes that nothing else of its caller waits for
SaveMemoSet(p) == SaveMemoSetResolves(p) /\ UNCHANGED panelVars /\ UNCHANGED extVars

\* saveMemo, localStorage: getLocalStore, assign, setLocalStore, no await
SaveMemoLocal(p, memo) ==
    /\ ~isExtension
    /\ calls[p] = Idle
    /\ MayHappen
    /\ issued' = issued + 1
    /\ StorageSet(PutKey(store, memo.id, memo))
    /\ WriteDone(p, "save", memo.id, memo)
    /\ ret' = [ret EXCEPT ![p] = [op |-> "save"]]
    /\ UNCHANGED <<isExtension, calls, overlapped>>
    /\ UNCHANGED panelVars
    /\ UNCHANGED extVars

\* deleteMemo, isExtension: up to `await chrome.storage.local.get('memos')`
deleteMemoFromStorage(p, id) ==
    /\ isExtension
    /\ Issue(p, [op |-> "delete", pc |-> "get", id |-> id,
                 memos |-> EmptyStore, alone |-> ~OthersInFlight(p)])
    /\ UNCHANGED <<isExtension, store, expected, lastWrite>>
    /\ UNCHANGED bgVars

\* a surface other than the panel hook calls deleteMemo
DeleteMemoCall(p, id) == deleteMemoFromStorage(p, id) /\ UNCHANGED panelVars /\ UNCHANGED extVars

\* the get resolves; delete memos[id]; chrome.storage.local.set({ memos })
DeleteMemoGet(p) ==
    /\ calls[p].op = "delete" /\ calls[p].pc = "get"
    /\ calls' = [calls EXCEPT ![p].pc = "set",
                              ![p].memos = DeleteKey(store, calls[p].id)]
    /\ UNCHANGED <<isExtension, store, ret, overlapped, expected, lastWrite, issued>>
    /\ UNCHANGED bgVars
    /\ UNCHANGED panelVars
    /\ UNCHANGED extVars

\* the set resolves
DeleteMemoSetResolves(p) ==
    /\ calls[p].op = "delete" /\ calls[p].pc = "set"
    /\ StorageSet(calls[p].memos)
    /\ WriteDone(p, "delete", calls[p].id, calls[p].id)
    /\ calls' = [calls EXCEPT ![p] = Idle]
    /\ ret' = [ret EXCEPT ![p] = [op |-> "delete"]]
    /\ UNCHANGED <<isExtension, overlapped, issued>>

\* the deleteMemo of a surface other than the panel hook completes
DeleteMemoSet(p) == DeleteMemoSetResolves(p) /\ UNCHANGED panelVars /\ UNCHANGED extVars

\* deleteMemo, localStorage
DeleteMemoLocal(p, id) ==
    /\ ~isExtension
    /\ calls[p] = Idle
    /\ MayHappen
    /\ issued' = issued + 1
    /\ StorageSet(DeleteKey(store, id))
    /\ WriteDone(p, "delete", id, id)
    /\ ret' = [ret EXCEPT ![p] = [op |-> "delete"]]
    /\ UNCHANGED <<isExtension, calls, overlapped>>
    /\ UNCHANGED panelVars
    /\ UNCHANGED extVars

\* getAllMemos, isExtension: up to the await; `want` is history, the records
\* every write completed before this call was issued has left
GetAllMemosCall(p) ==
    /\ isExtension
    /\ Issue(p, [op |-> "getAll", pc |-> "get", want |-> expected,
                 alone |-> ~OthersInFlight(p)])
    /\ UNCHANGED <<isExtension, store, expected, lastWrite>>
    /\ UNCHANGED bgVars
    /\ UNCHANGED panelVars
    /\ UNCHANGED extVars

GetAllMemosGet(p) ==
    /\ calls[p].op = "getAll" /\ calls[p].pc = "get"
    /\ ret' = [ret EXCEPT ![p] = [op |-> "getAll", rows |-> getAllMemosOf(store),
                                  want |-> calls[p].want]]
    /\ calls' = [calls EXCEPT ![p] = Idle]
    /\ UNCHANGED <<isExtension, store, overlapped, expected, lastWrite, issued>>
    /\ UNCHANGED bgVars
    /\ UNCHANGED panelVars
    /\ UNCHANGED extVars

GetAllMemosLocal(p) ==
    /\ ~isExtension
    /\ calls[p] = Idle
    /\ MayHappen
    /\ issued' = issued + 1
    /\ ret' = [ret EXCEPT ![p] = [op |-> "getAll", rows |-> getAllMemosOf(store),
                                  want |-> expected]]
    /\ UNCHANGED <<isExtension, store, calls, overlapped, expected, lastWrite>>
    /\ UNCHANGED bgVars
    /\ UNCHANGED panelVars
    /\ UNCHANGED extVars

\* getMemosByDomain, isExtension
GetMemosByDomainCall(p, domain) ==
    /\ isExtension
    /\ Issue(p, [op |-> "getByDomain", pc |-> "get", domain |-> domain,
                 alone |-> ~OthersInFlight(p)])
    /\ UNCHANGED <<isExtension, store, expected, lastWrite>>
    /\ UNCHANGED bgVars
    /\ UNCHANGED panelVars
    /\ UNCHANGED extVars

GetMemosByDomainGet(p) ==
    /\ calls[p].op = "getByDomain" /\ calls[p].pc = "get"
    /\ ret' = [ret EXCEPT ![p] = [op |-> "getByDomain", domain |-> calls[p].domain,
                                  rows |-> getMemosByDomainOf(store, calls[p].domain),
                                  from |-> store]]
    /\ calls' = [calls EXCEPT ![p] = Idle]
    /\ UNCHANGED <<isExtension, store, overlapped, expected, lastWrite, issued>>
    /\ UNCHANGED bgVars
    /\ UNCHANGED panelVars
    /\ UNCHANGED extVars

GetMemosByDomainLocal(p, domain) ==
    /\ ~isExtension
    /\ calls[p] = Idle
    /\ MayHappen
    /\ issued' = issued + 1
    /\ ret' = [ret EXCEPT ![p] = [op |-> "getByDomain", domain |-> domain,
                                  rows |-> getMemosByDomainOf(store, domain),
                                  from |-> store]]
    /\ UNCHANGED <<isExtension, store, calls, overlapped, expected, lastWrite>>
    /\ UNCHANGED bgVars
    /\ UNCHANGED panelVars
    /\ UNCHANGED extVars

----------------------------------------------------------------------------
(* SpecStore: two surfaces call the store; their calls may overlap.         *)

MemoIds == {"m1", "m2"}
Contents == {"v1", "v2"}

\* the records the surfaces save
StoreMemos ==
    {Memo(id, "Note", c, "example.com", "https://example.com/a", 1, 1) :
        id \in MemoIds, c \in Contents}

InitStoreVars ==
    /\ isExtension \in BOOLEAN
    /\ store \in {NoMemos, EmptyStore}
    /\ calls = [p \in Callers |-> Idle]
    /\ ret = [p \in Callers |-> NoRet]
    /\ overlapped = FALSE
    /\ expected = [k \in {} |-> k]
    /\ lastWrite = NoWrite
    /\ issued = 0

\* null (domain, activeMemoId)
Null == "<null>"
NoFetch == [pc |-> "none"]
NoDelete == [pc |-> "none"]
NoHist ==
    [edits |-> 0, at |-> 0, memo |-> Null, deps |-> <<>>, saves |-> 0, dropped |-> FALSE,
     why |-> "", savedAt |-> 0, savedMemo |-> Null, savedDeps |-> <<>>]

NoCreate == [pc |-> "none"]

\* at most this many createMemo calls, and as many deleteMemo calls, of the
\* hook are in flight at a time
MaxTasks == 2

\* the slots of the calls in flight: a call takes the first free one
DeleteSlots == {"delete" \o ToString(i) : i \in 1..MaxTasks}
CreateSlots == {"create" \o ToString(i) : i \in 1..MaxTasks}

\* no effect has run: the component has just mounted, or is not mounted
NoEffects ==
    [domain |-> Null, url |-> Null, title |-> Null, viewMode |-> "none",
     activeMemoId |-> Null]
NoImport == [pc |-> "none"]

\* the reader.onload callbacks of the options page: at most MaxTasks of them
\* await a saveMemo at a time
ImportSlots == {"import" \o ToString(i) : i \in 1..MaxTasks}
NoImports == [p \in ImportSlots |-> NoImport]

\* no resolver, no click, no import
InitNoExt ==
    /\ currentUrl = Null
    /\ currentTitle = Null
    /\ resolving = 0
    /\ titles = [t \in Tabs |-> ""]
    /\ nextId = 1
    /\ creating = [p \in CreateSlots |-> NoCreate]
    /\ clicks = <<>>
    /\ panelOpen = {}
    /\ inbox = <<>>
    /\ importing = NoImports

\* no panel is open
InitNoPanel ==
    /\ mounted = FALSE
    /\ currentDomain = Null
    /\ viewMode = "domain"
    /\ panelMemos = <<>>
    /\ activeMemoId = Null
    /\ saveTimeoutRef = 0
    /\ timers = {}
    /\ nextHandle = 1
    /\ clock = 0
    /\ fetch = NoFetch
    /\ deleting = [p \in DeleteSlots |-> NoDelete]
    /\ queued = <<>>
    /\ effectOf = NoEffects
    /\ hist = NoHist
    /\ switches = 0

\* no tab, no listener: the storage module alone
InitNoBackground ==
    /\ listening = FALSE
    /\ tabs = [t \in Tabs |-> [url |-> NoUrl]]
    /\ focused = 1
    /\ badge = [t \in Tabs |-> ""]
    /\ menuTitle = MenuCreate
    /\ handlers = [h \in HandlerIds |-> IdleHandler]
    /\ lastDone = NoneDone
    /\ tabEvents = 0

InitStore == InitStoreVars /\ InitNoBackground /\ InitNoPanel /\ InitNoExt

NextStore ==
    \E p \in Callers :
        \/ \E memo \in StoreMemos : SaveMemoCall(p, memo)
        \/ SaveMemoGet(p)
        \/ SaveMemoSet(p)
        \/ \E memo \in StoreMemos : SaveMemoLocal(p, memo)
        \/ \E id \in MemoIds : DeleteMemoCall(p, id)
        \/ DeleteMemoGet(p)
        \/ DeleteMemoSet(p)
        \/ \E id \in MemoIds : DeleteMemoLocal(p, id)
        \/ GetAllMemosCall(p)
        \/ GetAllMemosGet(p)
        \/ GetAllMemosLocal(p)

SpecStore == InitStore /\ [][NextStore]_vars

----------------------------------------------------------------------------
(* Background service worker: the tab and storage listeners and             *)
(* updateBadgeAndMenu.                                                      *)

\* history kept when a listener invocation ends
Done(h, kind) ==
    lastDone' = IF handlers[h].solo
                THEN [kind |-> kind, tab |-> handlers[h].tab,
                      prevBadge |-> handlers[h].prevBadge,
                      prevMenu |-> handlers[h].prevMenu]
                ELSE NoneDone

\* chrome.contextMenus.update("domain-memo-action", { title })
MenuUpdate(matchCount) == menuTitle' = MenuTitleOf(matchCount)

\* the user switches to tab t; tabs.onActivated: the listener runs up to
\* `await chrome.tabs.get(activeInfo.tabId)`
ActivateTab(t) ==
    /\ listening
    /\ t # focused
    /\ MayHappen
    /\ tabEvents' = tabEvents + 1
    /\ focused' = t
    /\ Spawn([kind |-> "activated", pc |-> "tabs_get", tab |-> t, url |-> NoUrl,
              count |-> 0, solo |-> TRUE, prevBadge |-> badge[t],
              prevMenu |-> menuTitle])
    /\ lastDone' = NoneDone
    /\ UNCHANGED <<listening, tabs, badge, menuTitle>>
    /\ UNCHANGED storeVars
    /\ UNCHANGED panelVars
    /\ UNCHANGED extVars

\* tab t finishes loading url; tabs.onUpdated with status 'complete': the
\* listener calls updateBadgeAndMenu(tabId, tab.url) when tab.url is truthy,
\* which runs up to `await chrome.storage.local.get('memos')`
NavigateTab(t, url) ==
    /\ listening
    /\ MayHappen
    /\ tabEvents' = tabEvents + 1
    /\ tabs' = [tabs EXCEPT ![t].url = url]
    /\ IF Truthy(url)
       THEN /\ Spawn([kind |-> "updated", pc |-> "storage_get", tab |-> t,
                      url |-> url, count |-> 0, solo |-> TRUE,
                      prevBadge |-> badge[t], prevMenu |-> menuTitle])
            /\ lastDone' = NoneDone
       ELSE /\ Disturb
            /\ lastDone' = [kind |-> "skipped", tab |-> t,
                            prevBadge |-> badge[t], prevMenu |-> menuTitle]
    /\ UNCHANGED <<listening, focused, badge, menuTitle>>
    /\ UNCHANGED storeVars
    /\ UNCHANGED panelVars
    /\ UNCHANGED extVars

\* onActivated: chrome.tabs.get resolves; if (tab.url) updateBadgeAndMenu(...)
TabsGetResolves(h) ==
    /\ handlers[h].pc = "tabs_get"
    /\ LET url == tabs[handlers[h].tab].url
       IN  IF Truthy(url)
           THEN /\ handlers' = [handlers EXCEPT ![h].pc = "storage_get", ![h].url = url]
                /\ UNCHANGED lastDone
           ELSE /\ handlers' = [handlers EXCEPT ![h] = IdleHandler]
                /\ Done(h, "skipped")
    /\ UNCHANGED <<listening, tabs, focused, badge, menuTitle, tabEvents>>
    /\ UNCHANGED storeVars
    /\ UNCHANGED panelVars
    /\ UNCHANGED extVars

\* storage.onChanged: chrome.tabs.query({active, currentWindow}) resolves;
\* if (tab?.id && tab?.url) updateBadgeAndMenu(tab.id, tab.url)
TabsQueryResolves(h) ==
    /\ handlers[h].pc = "tabs_query"
    /\ LET url == tabs[focused].url
       IN  IF Truthy(url)
           THEN /\ handlers' = [handlers EXCEPT ![h].pc = "storage_get",
                                                ![h].tab = focused,
                                                ![h].url = url,
                                                ![h].prevBadge =
                                                    IF handlers[h].solo
                                                    THEN badge[focused] ELSE ""]
                /\ UNCHANGED lastDone
           ELSE /\ handlers' = [handlers EXCEPT ![h] = IdleHandler]
                /\ lastDone' = IF handlers[h].solo
                               THEN [kind |-> "skipped", tab |-> focused,
                                     prevBadge |-> badge[focused],
                                     prevMenu |-> handlers[h].prevMenu]
                               ELSE NoneDone
    /\ UNCHANGED <<listening, tabs, focused, badge, menuTitle, tabEvents>>
    /\ UNCHANGED storeVars
    /\ UNCHANGED panelVars
    /\ UNCHANGED extVars

\* updateBadgeAndMenu: the storage get resolves; matchCount is computed and
\* chrome.action.setBadgeText is called
StorageGetResolves(h) ==
    /\ handlers[h].pc = "storage_get"
    /\ handlers' = [handlers EXCEPT
                       ![h].pc = "set_badge_text",
                       ![h].count = MatchCount(ObjectValues(store), handlers[h].url)]
    /\ UNCHANGED <<listening, tabs, focused, badge, menuTitle, lastDone, tabEvents>>
    /\ UNCHANGED storeVars
    /\ UNCHANGED panelVars
    /\ UNCHANGED extVars

\* setBadgeText resolves: the tab's badge shows the text; with matches
\* setBadgeBackgroundColor is called, without the menu title is updated
SetBadgeTextResolves(h) ==
    /\ handlers[h].pc = "set_badge_text"
    /\ badge' = [badge EXCEPT ![handlers[h].tab] = BadgeTextOf(handlers[h].count)]
    /\ IF handlers[h].count > 0
       THEN /\ handlers' = [handlers EXCEPT ![h].pc = "set_badge_color"]
            /\ UNCHANGED <<menuTitle, lastDone>>
       ELSE /\ MenuUpdate(handlers[h].count)
            /\ handlers' = [handlers EXCEPT ![h] = IdleHandler]
            /\ Done(h, handlers[h].kind)
    /\ UNCHANGED <<listening, tabs, focused, tabEvents>>
    /\ UNCHANGED storeVars
    /\ UNCHANGED panelVars
    /\ UNCHANGED extVars

\* setBadgeBackgroundColor resolves; the menu title is updated
SetBadgeColorResolves(h) ==
    /\ handlers[h].pc = "set_badge_color"
    /\ MenuUpdate(handlers[h].count)
    /\ handlers' = [handlers EXCEPT ![h] = IdleHandler]
    /\ Done(h, handlers[h].kind)
    /\ UNCHANGED <<listening, tabs, focused, badge, tabEvents>>
    /\ UNCHANGED storeVars
    /\ UNCHANGED panelVars
    /\ UNCHANGED extVars

----------------------------------------------------------------------------
(* SpecBadge: the background with two tabs, and the panel writing notes.    *)

\* the records the panel saves: notes of two pages of one site
BadgeMemos ==
    {Memo(id, "Note", "v1", Hostname(u), u, 1, 1) : id \in MemoIds, u \in Urls}

\* runtime.onInstalled has created the menu item; the extension host
InitBadge ==
    /\ InitStoreVars
    /\ isExtension
    /\ listening = TRUE
    /\ tabs = [t \in Tabs |-> [url |-> IF t = 1 THEN UrlA ELSE NoUrl]]
    /\ focused = 1
    /\ badge = [t \in Tabs |-> ""]
    /\ menuTitle = MenuCreate
    /\ handlers = [h \in HandlerIds |-> IdleHandler]
    /\ lastDone = NoneDone
    /\ tabEvents = 0
    /\ InitNoPanel
    /\ InitNoExt

NextBadge ==
    \/ \E t \in Tabs : ActivateTab(t)
    \/ \E t \in Tabs, url \in Urls \cup {NoUrl} : NavigateTab(t, url)
    \/ \E h \in HandlerIds :
          \/ TabsGetResolves(h)
          \/ TabsQueryResolves(h)
          \/ StorageGetResolves(h)
          \/ SetBadgeTextResolves(h)
          \/ SetBadgeColorResolves(h)
    \/ \E memo \in BadgeMemos : SaveMemoCall("panel", memo)
    \/ SaveMemoGet("panel")
    \/ SaveMemoSet("panel")
    \/ \E id \in MemoIds : DeleteMemoCall("panel", id)
    \/ DeleteMemoGet("panel")
    \/ DeleteMemoSet("panel")

SpecBadge == InitBadge /\ [][NextBadge]_vars

\* rows holds no two records with the same id
NoDuplicateIds(rows) == \A i, j \in DOMAIN rows : rows[i].id = rows[j].id => i = j

\* C1: as long as no call was issued while another was in flight, a completed
\* getAllMemos returned exactly one record per id that the completed saves
\* (and deletes) left, each equal to the record saved last under that id.
C1_SavesReadBack ==
    ~overlapped =>
        \A p \in Callers :
            ret[p].op = "getAll" =>
                /\ NoDuplicateIds(ret[p].rows)
                /\ Len(ret[p].rows) = Cardinality(DOMAIN ret[p].want)
                /\ \A k \in DOMAIN ret[p].want :
                       \E i \in DOMAIN ret[p].rows :
                           ret[p].rows[i].id = k /\ ret[p].rows[i] = ret[p].want[k]

\* a read of two records, one of them saved twice (the second save overwrote)
C1_Witness ==
    /\ ~overlapped
    /\ \E p \in Callers :
          /\ ret[p].op = "getAll"
          /\ Len(ret[p].rows) = 2
    /\ lastWrite.op = "save"
    /\ lastWrite.key \in DOMAIN lastWrite.prev.vals
    /\ lastWrite.prev.vals[lastWrite.key] # store.vals[lastWrite.key]

\* C4 (as claimed): once every call has completed, the store holds what each
\* write left, record by record, also when the calls overlapped.
C4_OverlappingWritesKept ==
    (\A p \in Callers : ~InFlight(p)) =>
        /\ DOMAIN store.vals = DOMAIN expected
        /\ \A k \in DOMAIN expected : store.vals[k] = expected[k]

\* C5: right after a deleteMemo(id) completes the store has no key id and a
\* read returns no record with that id; if the id was not stored and no other
\* call overlapped the delete, the store is the MemoStore a read returned
\* before.
C5_DeleteRemovesKey ==
    lastWrite.op = "delete" =>
        /\ lastWrite.key \notin DOMAIN store.vals
        /\ lastWrite.key \notin Range(store.keys)
        /\ \A i \in DOMAIN getAllMemosOf(store) :
               getAllMemosOf(store)[i].id # lastWrite.key
        /\ (lastWrite.alone /\ lastWrite.key \notin DOMAIN lastWrite.prev.vals)
               => store = MemosOf(lastWrite.prev)

\* a stored record was deleted while another record stays
C5_Witness ==
    /\ lastWrite.op = "delete"
    /\ lastWrite.key \in DOMAIN lastWrite.prev.vals
    /\ Len(store.keys) = 1

\* a delete of an id that is not stored, on a store that is not empty
C5_WitnessAbsent ==
    /\ lastWrite.op = "delete"
    /\ lastWrite.alone
    /\ lastWrite.key \notin DOMAIN lastWrite.prev.vals
    /\ Len(store.keys) = 1

----------------------------------------------------------------------------
(* SpecQuery: one surface fills the store and queries it by domain.         *)

QueryIds == {"m1", "m2", "1"}
Domains == {"example.com", "Example.com"}

\* updatedAt of the records saved ranges over 1..MaxStamp
MaxStamp == 2

QueryMemos ==
    {Memo(id, "Note", "v1", d, "https://example.com/a", 1, u) :
        id \in QueryIds, d \in Domains, u \in 1..MaxStamp}

InitQuery == InitStoreVars /\ InitNoBackground /\ InitNoPanel /\ InitNoExt

NextQuery ==
    \E p \in {"panel"} :
        \/ \E memo \in QueryMemos : SaveMemoCall(p, memo)
        \/ SaveMemoGet(p)
        \/ SaveMemoSet(p)
        \/ \E memo \in QueryMemos : SaveMemoLocal(p, memo)
        \/ \E domain \in Domains : GetMemosByDomainCall(p, domain)
        \/ GetMemosByDomainGet(p)
        \/ \E domain \in Domains : GetMemosByDomainLocal(p, domain)

SpecQuery == InitQuery /\ [][NextQuery]_vars

\* the place of key k in the key order of memos
KeyIndex(memos, k) == CHOOSE i \in DOMAIN memos.keys : memos.keys[i] = k

\* C6: getMemosByDomain(d) returns only stored records whose domain is
\* exactly d, none before one with a larger updatedAt, and records with equal
\* updatedAt in the order the store holds them (so the same on every call).
C6_ByDomainSorted ==
    \A p \in Callers :
        ret[p].op = "getByDomain" =>
            LET rows == ret[p].rows
                from == ret[p].from
            IN  /\ \A i \in DOMAIN rows :
                       /\ rows[i].domain = ret[p].domain
                       /\ rows[i].id \in DOMAIN from.vals
                       /\ rows[i] = from.vals[rows[i].id]
                /\ \A i, j \in DOMAIN rows :
                       i < j => rows[i].updatedAt >= rows[j].updatedAt
                /\ \A i, j \in DOMAIN rows :
                       (i < j /\ rows[i].updatedAt = rows[j].updatedAt)
                           => KeyIndex(from, rows[i].id) < KeyIndex(from, rows[j].id)

\* a query over a store that holds the other domain's record, a tie and a
\* newer record saved before an older one
C6_Witness ==
    \E p \in Callers :
        /\ ret[p].op = "getByDomain"
        /\ Len(ret[p].from.keys) = 3
        /\ Len(ret[p].rows) = 2
        /\ ret[p].rows[1].updatedAt = ret[p].rows[2].updatedAt

\* the query reordered what the store holds
C6_WitnessReordered ==
    \E p \in Callers :
        /\ ret[p].op = "getByDomain"
        /\ Len(ret[p].rows) = 2
        /\ KeyIndex(ret[p].from, ret[p].rows[1].id) > KeyIndex(ret[p].from, ret[p].rows[2].id)

----------------------------------------------------------------------------
(* Claims about the background.                                             *)

\* the text the badge of a page at url shows for the notes stored now
CountText(url) ==
    LET n == Cardinality({k \in DOMAIN store.vals : store.vals[k].url = url})
    IN  IF n > 0 THEN ToString(n) ELSE ""

\* some stored note's url is url
SomeNoteAt(url) == \E k \in DOMAIN store.vals : store.vals[k].url = url

\* C7: once a tab-activation or navigation-completed event of a tab at URL u
\* has been handled (no other event arrived meanwhile), that tab's badge text
\* is the decimal count of the stored notes whose url is exactly u, and is
\* empty when there is none.
C7_BadgeIsExactUrlCount ==
    lastDone.kind \in {"activated", "updated"} =>
        badge[lastDone.tab] = CountText(tabs[lastDone.tab].url)

\* a tab whose badge read "1" completed a navigation to another page of the
\* same site, which has no note: the badge is cleared
C7_Witness ==
    /\ lastDone.kind = "updated"
    /\ lastDone.prevBadge = "1"
    /\ badge[lastDone.tab] = ""
    /\ \E k \in DOMAIN store.vals :
          /\ store.vals[k].url # tabs[lastDone.tab].url
          /\ store.vals[k].domain = Hostname(tabs[lastDone.tab].url)

\* C8: once a store-change event has been handled (no other event arrived
\* meanwhile), the menu label reads "Open Note for this Page" when a stored
\* note's url is the focused tab's URL and "Create Note for this Page" when
\* none is, and the focused tab's badge shows the count.
C8_StoreChangeUpdatesMenu ==
    lastDone.kind = "changed" =>
        /\ lastDone.tab = focused
        /\ menuTitle = IF SomeNoteAt(tabs[focused].url)
                       THEN "Open Note for this Page"
                       ELSE "Create Note for this Page"
        /\ badge[focused] = CountText(tabs[focused].url)

\* the label read Create, a note of the focused page was saved, and with no
\* tab event the label reads Open and the badge "1"
C8_Witness ==
    /\ lastDone.kind = "changed"
    /\ tabEvents = 0
    /\ lastDone.prevMenu = "Create Note for this Page"
    /\ menuTitle = "Open Note for this Page"
    /\ lastDone.prevBadge = ""
    /\ badge[focused] = "1"

\* C9: once an event has been handled (no other event arrived meanwhile), the
\* menu label reads "Open Note for this Page" exactly when some stored note's
\* url is the focused tab's URL.
C9_MenuReflectsFocusedTab ==
    lastDone.kind \in {"activated", "updated", "changed"} =>
        (menuTitle = "Open Note for this Page" <=> SomeNoteAt(tabs[focused].url))

\* a navigation completed in a tab that is not focused and changed the label
C9_BackgroundTabChangedMenu ==
    /\ lastDone.kind = "updated"
    /\ lastDone.tab # focused
    /\ menuTitle # lastDone.prevMenu

\* an invocation that is inside updateBadgeAndMenu, past its URL check
PastUrlCheck(h) == handlers[h].pc \in {"storage_get", "set_badge_text", "set_badge_color"}

\* a listener step for a tab that has no URL
NoUrlStep ==
    \/ \E t \in Tabs : NavigateTab(t, NoUrl)
    \/ \E h \in HandlerIds :
          /\ handlers[h].pc = "tabs_get"
          /\ tabs[handlers[h].tab].url = NoUrl
          /\ TabsGetResolves(h)
    \/ \E h \in HandlerIds :
          /\ handlers[h].pc = "tabs_query"
          /\ tabs[focused].url = NoUrl
          /\ TabsQueryResolves(h)

\* C10: updateBadgeAndMenu never gets past its URL check for a tab without a
\* URL, and a listener step for such a tab changes no badge text and not the
\* menu label, and leaves no invocation of its own running.
C10_NoUrlSkipped ==
    /\ [](\A h \in HandlerIds : PastUrlCheck(h) => handlers[h].url # NoUrl)
    /\ [][NoUrlStep =>
            /\ badge' = badge
            /\ menuTitle' = menuTitle
            /\ \A h \in HandlerIds : Busy(h)' => Busy(h)]_vars

\* a tab whose badge reads "1" went to a page without URL while the label read
\* Open: the event was skipped and both are as they were
C10_Witness ==
    /\ lastDone.kind = "skipped"
    /\ tabs[lastDone.tab].url = NoUrl
    /\ lastDone.prevBadge = "1"
    /\ badge[lastDone.tab] = "1"
    /\ lastDone.prevMenu = "Open Note for this Page"
    /\ menuTitle = "Open Note for this Page"

----------------------------------------------------------------------------
(* Side panel: App with the hooks useCurrentDomain and useMemos and the     *)
(* debounced autosave.  The variables currentDomain .. activeMemoId hold    *)
(* the state of the render React committed last.  A state setter called in  *)
(* a React event handler (a click, a change of an input) is rendered and    *)
(* its effects run before anything else happens, so the handler, the render *)
(* and the effects are one step.  A state setter called anywhere else (the  *)
(* continuation of an await, a chrome listener) only queues the update: the *)
(* render is a later step, Render, and the cleanups and effects of that     *)
(* render a step later still, Effects; timers and listeners may run in      *)
(* between.  Effects left pending are run first by the next render.  The    *)
(* hook's storage calls are the calls of the surfaces in PanelCalls.        *)

\* setTimeout(async () => { await saveMemo(updatedMemo) }, 1000)
DebounceMs == 1000

\* the clock advances by at most this many ms in one step
TickMs == 500

\* the clock runs for this many ms
MaxClock == 2000

\* the user makes at most this many edits
MaxEdits == 2

\* the panel's subject changes (page, view, selected note, a delete, the
\* panel closing) at most this many times
MaxSwitches == 2

\* history: one more change of the panel's subject
Switch == switches < MaxSwitches /\ switches' = switches + 1

AutosaveCalls == {"autosave1", "autosave2"}
PanelCalls == AutosaveCalls \cup DeleteSlots
PanelDomains == {"example.com", "other.org"}

\* !x for a string | null | undefined
Falsy(x) == x = Null \/ x = NoUrl \/ x = ""

\* the first slot in which no call is in flight, "" when there is none
FreeTask(tasks, prefix) ==
    IF \E i \in 1..MaxTasks : tasks[prefix \o ToString(i)].pc = "none"
    THEN prefix \o ToString(CHOOSE i \in 1..MaxTasks :
                               /\ tasks[prefix \o ToString(i)].pc = "none"
                               /\ \A j \in 1..(i - 1) : tasks[prefix \o ToString(j)].pc # "none")
    ELSE ""

\* the effect's dependency array [domain, viewMode, activeMemoId]
Deps == <<currentDomain, viewMode, activeMemoId>>

\* memos.find((m) => m.id === activeMemoId) || null
HasActiveMemo == \E i \in DOMAIN panelMemos : panelMemos[i].id = activeMemoId

activeMemo ==
    panelMemos[CHOOSE i \in DOMAIN panelMemos :
                   /\ panelMemos[i].id = activeMemoId
                   /\ \A j \in 1..(i - 1) : panelMemos[j].id # activeMemoId]

\* `if (!domain) return <p>Open a website ...</p>`: the list, the menu and
\* the editor are rendered only with a domain
Shown == mounted /\ ~Falsy(currentDomain)

\* if (saveTimeoutRef.current) clearTimeout(saveTimeoutRef.current)
ClearIfSet(ts, ref) == IF ref # 0 THEN {t \in ts : t.handle # ref} ELSE ts

\* variant: updateMemo keeps the timer of the previous edit
SupersedeTimerKeepsOld(ts, ref) == ts

\* updateMemo: the timer of the previous edit is cleared
SupersedeTimer(ts, ref) == ClearIfSet(ts, ref)

\* variant: the effect's cleanup leaves the timer running
EffectCleanupKeepsTimer(ts, ref) == ts

\* the cleanup the effect returns: isMounted = false and the timer is cleared
EffectCleanup(ts, ref) == ClearIfSet(ts, ref)

\* history: a pending autosave timer is being cancelled by something other
\* than a newer edit, and by what
Cancelled(h, ts, why) ==
    IF h.edits > 0 /\ ts # {} THEN [h EXCEPT !.dropped = TRUE, !.why = why] ELSE h

\* history: what makes the effect's cleanup run with the state P: the active
\* note is no longer the one of the last edit ("note"), the domain or the
\* view mode is no longer the one of the last edit ("deps"), or neither: the
\* cleanup belongs to a change rendered before the edit, and its effects had
\* not run yet when the edit set its timer ("stale")
CleanupCause(h, P) ==
    IF h.edits = 0 THEN ""
    ELSE IF h.deps[3] # P.activeMemoId THEN "note"
    ELSE IF <<h.deps[1], h.deps[2]>> # <<P.domain, P.viewMode>> THEN "deps"
    ELSE "stale"

\* variant: the "all" list as getAllMemos returns it, not sorted
LoadedForUnsorted(v, d) ==
    IF v = "all" THEN getAllMemosOf(store)
    ELSE IF ~Falsy(d) THEN getMemosByDomainOf(store, d)
    ELSE <<>>

\* loadMemos / fetchMemos: what the store returns for (viewMode, domain)
LoadedFor(v, d) ==
    IF v = "all" THEN SortByUpdatedAtDesc(getAllMemosOf(store))
    ELSE IF ~Falsy(d) THEN getMemosByDomainOf(store, d)
    ELSE <<>>

\* ---- React: state, queued updates, renders and effects

\* the hooks' state as React holds it: the state of the last render, the
\* updates queued for the next one, the render whose effects ran last, and
\* what the effects and handlers own (timers, the ref, the fetch in flight,
\* the updateTabInfo calls in flight)
Panel ==
    [domain |-> currentDomain, url |-> currentUrl, title |-> currentTitle,
     viewMode |-> viewMode, memos |-> panelMemos, activeMemoId |-> activeMemoId,
     queued |-> queued, effectOf |-> effectOf, timers |-> timers,
     saveTimeoutRef |-> saveTimeoutRef, fetch |-> fetch, hist |-> hist,
     resolving |-> resolving]

\* the step leaves the hooks' state as P
Becomes(P) ==
    /\ currentDomain' = P.domain
    /\ currentUrl' = P.url
    /\ currentTitle' = P.title
    /\ viewMode' = P.viewMode
    /\ panelMemos' = P.memos
    /\ activeMemoId' = P.activeMemoId
    /\ queued' = P.queued
    /\ effectOf' = P.effectOf
    /\ timers' = P.timers
    /\ saveTimeoutRef' = P.saveTimeoutRef
    /\ fetch' = P.fetch
    /\ hist' = P.hist
    /\ resolving' = P.resolving

hookVars ==
    <<currentDomain, currentUrl, currentTitle, viewMode, panelMemos, activeMemoId,
      queued, effectOf, timers, saveTimeoutRef, fetch, hist, resolving>>

\* setX(value) and setMemos((prev) => prev.map(...)) as queued updates
Set(hook, value) == [hook |-> hook, fn |-> "set", value |-> value]
MapMemos(updatedMemo) == [hook |-> "memos", fn |-> "map", value |-> updatedMemo]

\* prev.map((m) => (m.id === updatedMemo.id ? updatedMemo : m))
Replaced(prev, updatedMemo) ==
    [i \in DOMAIN prev |-> IF prev[i].id = updatedMemo.id THEN updatedMemo ELSE prev[i]]

\* the state after one update
Applied(P, u) ==
    [P EXCEPT ![u.hook] = IF u.fn = "map" THEN Replaced(@, u.value) ELSE u.value]

\* a setter called outside a React event handler: the update waits for the
\* next render; on an unmounted component it is dropped
Enqueue(us) == queued' = IF mounted THEN queued \o us ELSE queued

\* a render: the queued updates are applied in the order they were queued
RECURSIVE AppliedAll(_, _)
AppliedAll(P, us) ==
    IF us = <<>> THEN P ELSE AppliedAll(Applied(P, Head(us)), Tail(us))

Rendered(P) == [AppliedAll(P, P.queued) EXCEPT !.queued = <<>>]

\* the value a hook has once the queued updates are applied to the rendered
\* one, the plain and the functional updates in the order they were queued
LastSet(hook, rendered) == AppliedAll([Panel EXCEPT ![hook] = rendered], queued)[hook]

\* a setter called in a React event handler: the update is rendered at once;
\* behind an update of the same hook that still waits it is queued as well
\* and applied again, in its place, by the render of that update
RenderedSync(P, u) ==
    LET Q == Applied(P, u)
    IN  IF \E i \in DOMAIN P.queued : P.queued[i].hook = u.hook
        THEN [Q EXCEPT !.queued = Append(@, u)]
        ELSE Q

RECURSIVE RenderedSyncAll(_, _)
RenderedSyncAll(P, us) ==
    IF us = <<>> THEN P ELSE RenderedSyncAll(RenderedSync(P, Head(us)), Tail(us))

\* what the effects of a render close over: createMemo's domain, url and
\* title, loadMemos' and fetchMemos' domain, viewMode and activeMemoId
Closure(P) ==
    [domain |-> P.domain, url |-> P.url, title |-> P.title, viewMode |-> P.viewMode,
     activeMemoId |-> P.activeMemoId]

\* the last render's effects have not run yet
EffectsPending(P) == P.effectOf # Closure(P)

\* the cleanups and effects of the last render.  First run: useCurrentDomain
\* calls updateTabInfo and registers its tab listeners.  When domain,
\* viewMode or activeMemoId changed: the cleanup of useMemos' effect
\* (isMounted = false, the timer cleared), then the effect, fetchMemos up to
\* its await, or to its setMemos([]) when it awaits nothing.  Every run: the
\* runtime.onMessage listener is replaced by the one of this render.
WithEffects(P) ==
    IF ~EffectsPending(P) THEN P
    ELSE LET first == P.effectOf = NoEffects
             rerun == first \/ <<P.effectOf.domain, P.effectOf.viewMode, P.effectOf.activeMemoId>>
                                   # <<P.domain, P.viewMode, P.activeMemoId>>
             awaits == P.viewMode = "all" \/ ~Falsy(P.domain)
         IN  [P EXCEPT
                !.effectOf = Closure(P),
                !.resolving = IF first THEN @ + 1 ELSE @,
                !.timers = IF rerun /\ ~first THEN EffectCleanup(@, P.saveTimeoutRef) ELSE @,
                !.hist = IF rerun /\ ~first
                         THEN Cancelled(@, P.timers, CleanupCause(P.hist, P)) ELSE @,
                !.fetch = IF ~rerun THEN @
                          ELSE IF awaits
                          THEN [pc |-> "get", domain |-> P.domain, viewMode |-> P.viewMode,
                                activeMemoId |-> P.activeMemoId]
                          ELSE NoFetch,
                !.queued = IF rerun /\ ~awaits THEN Append(@, Set("memos", <<>>)) ELSE @]

\* a React event handler has run and left P, calling the setters of `us`:
\* effects still pending are run, the updates are rendered, and the effects
\* of that render run
AfterEvent(P, us) == WithEffects(RenderedSyncAll(WithEffects(P), us))

\* React renders the queued updates
Render ==
    /\ mounted
    /\ queued # <<>>
    /\ Becomes(Rendered(WithEffects(Panel)))
    /\ UNCHANGED <<mounted, nextHandle, clock, deleting, switches>>
    /\ UNCHANGED <<titles, nextId, creating, clicks, panelOpen, inbox, importing>>
    /\ UNCHANGED <<storeVars, bgVars>>

\* React runs the cleanups and effects of the last render
Effects ==
    /\ mounted
    /\ EffectsPending(Panel)
    /\ Becomes(WithEffects(Panel))
    /\ UNCHANGED <<mounted, nextHandle, clock, deleting, switches>>
    /\ UNCHANGED <<titles, nextId, creating, clicks, panelOpen, inbox, importing>>
    /\ UNCHANGED <<storeVars, bgVars>>

\* fetchMemos: the store read resolves; setMemos(loaded) and, with nothing
\* selected when the effect ran, setActiveMemoId(loaded[0].id)
FetchResolve ==
    /\ fetch.pc = "get"
    /\ fetch' = NoFetch
    /\ LET loaded == LoadedFor(fetch.viewMode, fetch.domain)
       IN  Enqueue(<<Set("memos", loaded)>> \o
                   (IF Len(loaded) > 0 /\ Falsy(fetch.activeMemoId)
                    THEN <<Set("activeMemoId", loaded[1].id)>> ELSE <<>>))
    /\ UNCHANGED <<currentDomain, currentUrl, currentTitle, viewMode, panelMemos,
                   activeMemoId, effectOf, timers, saveTimeoutRef, hist, resolving>>
    /\ UNCHANGED <<mounted, nextHandle, clock, deleting, switches>>
    /\ UNCHANGED <<titles, nextId, creating, clicks, panelOpen, inbox, importing>>
    /\ UNCHANGED <<storeVars, bgVars>>

\* App: setViewMode(viewMode === 'all' ? 'domain' : 'all')
ToggleViewMode ==
    /\ Shown
    /\ Becomes(AfterEvent(Panel, <<Set("viewMode", IF viewMode = "all" THEN "domain" ELSE "all")>>))
    /\ UNCHANGED <<mounted, nextHandle, clock, deleting>>
    /\ Switch
    /\ UNCHANGED <<titles, nextId, creating, clicks, panelOpen, inbox, importing>>
    /\ UNCHANGED <<storeVars, bgVars>>

\* App: a click on a note of the list, setActiveMemoId(memo.id)
SelectMemo(id) ==
    /\ Shown
    /\ \E i \in DOMAIN panelMemos : panelMemos[i].id = id
    /\ id # activeMemoId
    /\ Becomes(AfterEvent(Panel, <<Set("activeMemoId", id)>>))
    /\ UNCHANGED <<mounted, nextHandle, clock, deleting>>
    /\ Switch
    /\ UNCHANGED <<titles, nextId, creating, clicks, panelOpen, inbox, importing>>
    /\ UNCHANGED <<storeVars, bgVars>>

\* updateMemo(updatedMemo): the optimistic update, the previous timer is
\* cleared and a new one set
updateMemo(updatedMemo) ==
    /\ nextHandle <= MaxEdits
    /\ LET P == [Panel EXCEPT
                    !.timers = SupersedeTimer(timers, saveTimeoutRef) \cup
                                   {[handle |-> nextHandle, due |-> clock + DebounceMs,
                                     memo |-> updatedMemo, deps |-> Deps]},
                    !.saveTimeoutRef = nextHandle,
                    !.hist = [edits |-> IF hist.edits > 0 /\ hist.saves = 0 /\ ~hist.dropped
                                        THEN hist.edits + 1 ELSE 1,
                              at |-> clock, memo |-> updatedMemo, deps |-> Deps,
                              saves |-> 0, dropped |-> FALSE, why |-> "", savedAt |-> 0,
                              savedMemo |-> Null, savedDeps |-> <<>>]]
       IN  Becomes(AfterEvent(P, <<MapMemos(updatedMemo)>>))
    /\ nextHandle' = nextHandle + 1
    /\ UNCHANGED <<mounted, clock, deleting, switches>>
    /\ UNCHANGED <<titles, nextId, creating, clicks, panelOpen, inbox, importing>>
    /\ UNCHANGED <<storeVars, bgVars>>

\* App.handleContentChange(val):
\* updateMemo({...activeMemo, content: val, updatedAt: Date.now()})
Edit(val) ==
    /\ Shown
    /\ HasActiveMemo
    /\ updateMemo([activeMemo EXCEPT !.content = val, !.updatedAt = clock])

\* App.handleTitleChange(e):
\* updateMemo({...activeMemo, title: e.target.value, updatedAt: Date.now()})
EditTitle(val) ==
    /\ Shown
    /\ HasActiveMemo
    /\ updateMemo([activeMemo EXCEPT !.title = val, !.updatedAt = clock])

\* a timer is due: its callback runs saveMemo(updatedMemo) up to the await
TimerFire(p) ==
    /\ \A q \in AutosaveCalls : (calls[q] = Idle /\ q # p) => p = "autosave1"
    /\ \E t \in timers :
          /\ t.due <= clock
          /\ timers' = timers \ {t}
          /\ saveMemo(p, t.memo)
          /\ hist' = [hist EXCEPT !.saves = @ + 1, !.savedAt = clock, !.savedMemo = t.memo,
                                   !.savedDeps = Deps]
    /\ UNCHANGED <<currentDomain, currentUrl, currentTitle, viewMode, panelMemos,
                   activeMemoId, queued, effectOf, saveTimeoutRef, fetch, resolving>>
    /\ UNCHANGED <<mounted, nextHandle, clock, deleting, switches>>
    /\ UNCHANGED <<titles, nextId, creating, clicks, panelOpen, inbox, importing>>

\* the due times of the pending timers: the panel's autosave timers and the
\* background's message timers
PendingDues ==
    {t.due : t \in timers} \cup
    {clicks[i].due : i \in {j \in DOMAIN clicks : clicks[j].pc = "timer"}}

\* time passes: up to the next time a timer becomes due, or by TickMs; a
\* timer that is due runs when the event loop gets to it, at its due time
\* or later
Tick ==
    /\ LET next == clock + TickMs
           dues == {d \in PendingDues : d > clock}
       IN  /\ clock' = IF \E d \in dues : d < next
                       THEN CHOOSE d \in dues : \A e \in dues : d <= e
                       ELSE next
           /\ clock' <= MaxClock
    /\ UNCHANGED hookVars
    /\ UNCHANGED <<mounted, nextHandle, deleting, switches>>
    /\ UNCHANGED <<titles, nextId, creating, clicks, panelOpen, inbox, importing>>
    /\ UNCHANGED <<storeVars, bgVars>>

\* App.confirmDelete: deleteMemo(activeMemo.id): the timer is cleared and
\* deleteMemoFromStorage(id) runs up to its await; setDeleteConfirmOpen(false)
\* is rendered
DeleteMemoStart ==
    /\ Shown
    /\ HasActiveMemo
    /\ FreeTask(deleting, "delete") # ""
    /\ LET p == FreeTask(deleting, "delete")
           P == [Panel EXCEPT !.timers = ClearIfSet(timers, saveTimeoutRef),
                              !.hist = Cancelled(hist, timers, "delete")]
       IN  /\ Becomes(AfterEvent(P, <<>>))
           /\ deleteMemoFromStorage(p, activeMemo.id)
           /\ deleting' = [deleting EXCEPT ![p] =
                              [pc |-> "storage", id |-> activeMemo.id,
                               domain |-> currentDomain, viewMode |-> viewMode,
                               activeMemoId |-> activeMemoId, orphan |-> FALSE]]
    /\ UNCHANGED <<mounted, nextHandle, clock>>
    /\ Switch
    /\ UNCHANGED <<titles, nextId, creating, clicks, panelOpen, inbox, importing>>

\* deleteMemo: deleteMemoFromStorage completes; loadMemos runs up to its await
DeleteStorageDone(p) ==
    /\ deleting[p].pc = "storage"
    /\ DeleteMemoSetResolves(p)
    /\ deleting' = [deleting EXCEPT ![p].pc = "load"]
    /\ UNCHANGED hookVars
    /\ UNCHANGED <<mounted, nextHandle, clock, switches>>
    /\ UNCHANGED <<titles, nextId, creating, clicks, panelOpen, inbox, importing>>

\* deleteMemo: loadMemos' store read resolves: setMemos(loaded), with
\* nothing selected setActiveMemoId(loaded[0].id), and
\* if (activeMemoId === id) setActiveMemoId(null), all as the call saw them
DeleteLoadResolves(p) ==
    /\ deleting[p].pc = "load"
    /\ deleting' = [deleting EXCEPT ![p] = NoDelete]
    /\ LET loaded == LoadedFor(deleting[p].viewMode, deleting[p].domain)
       IN  IF deleting[p].orphan THEN UNCHANGED queued
           ELSE Enqueue(<<Set("memos", loaded)>> \o
                        (IF Len(loaded) > 0 /\ Falsy(deleting[p].activeMemoId)
                         THEN <<Set("activeMemoId", loaded[1].id)>> ELSE <<>>) \o
                        (IF deleting[p].activeMemoId = deleting[p].id
                         THEN <<Set("activeMemoId", Null)>> ELSE <<>>))
    /\ UNCHANGED <<currentDomain, currentUrl, currentTitle, viewMode, panelMemos,
                   activeMemoId, effectOf, timers, saveTimeoutRef, fetch, hist, resolving>>
    /\ UNCHANGED <<mounted, nextHandle, clock, switches>>
    /\ UNCHANGED <<titles, nextId, creating, clicks, panelOpen, inbox, importing>>
    /\ UNCHANGED <<storeVars, bgVars>>

\* the calls of the hook that are in flight lose their component
Orphaned(tasks) ==
    [p \in DOMAIN tasks |->
        IF tasks[p].pc = "none" THEN tasks[p] ELSE [tasks[p] EXCEPT !.orphan = TRUE]]

\* the panel closes: the cleanups run (the timer is cleared, the listeners
\* are removed); what is queued is never rendered, and the calls in flight
\* set the state of a component that is gone
Unmount ==
    /\ mounted
    /\ mounted' = FALSE
    /\ timers' = EffectCleanup(timers, saveTimeoutRef)
    /\ hist' = Cancelled(hist, timers, "unmount")
    /\ fetch' = NoFetch
    /\ queued' = <<>>
    /\ effectOf' = NoEffects
    /\ resolving' = 0
    /\ deleting' = Orphaned(deleting)
    /\ creating' = Orphaned(creating)
    /\ UNCHANGED <<currentDomain, currentUrl, currentTitle, viewMode, panelMemos,
                   activeMemoId, saveTimeoutRef>>
    /\ UNCHANGED <<nextHandle, clock>>
    /\ Switch
    /\ UNCHANGED <<titles, nextId, clicks, panelOpen, inbox, importing>>
    /\ UNCHANGED <<storeVars, bgVars>>

----------------------------------------------------------------------------
(* useCurrentDomain: the panel's view of the active tab.                    *)

UrlC == "https://other.org/"

\* a string new URL() throws on
BadUrl == "not a url"

PageUrls == {UrlA, UrlB, UrlC}

\* what a tab's url may become: a page, a string new URL() rejects, nothing
NavUrls == PageUrls \cup {BadUrl, NoUrl}

\* new URL(url) does not throw
Parseable(url) == url \in PageUrls

\* document.title of the page at url, once it has loaded
TitleOf(url) ==
    CASE url = UrlA -> "Page A"
      [] url = UrlB -> "Page B"
      [] url = UrlC -> "Other"
      [] OTHER -> ""

\* the browser fires at most this many tab events at the panel
MaxNav == 2

\* the catch block forgetting the title
TabTripleKeepsTitle(url, title) ==
    IF Parseable(url) THEN <<Hostname(url), url, title>> ELSE <<Null, Null, title>>

\* the try/catch of updateTabInfo: new URL(tab.url) either gives the hostname,
\* and the triple is set from the tab, or throws, and the catch block sets
\* the three fields to null
TabTriple(url, title) ==
    IF Parseable(url) THEN <<Hostname(url), url, title>> ELSE <<Null, Null, Null>>

\* the effects of the first render have run: the tab listeners and the
\* runtime.onMessage listener are registered
Registered == mounted /\ effectOf # NoEffects

\* updateTabInfo: chrome.tabs.query resolves with the active tab; with a URL
\* setDomain, setUrl and setTitle are called with the triple of the tab, or
\* with null when the URL does not parse
UpdateTabInfoResolves ==
    /\ resolving > 0
    /\ resolving' = resolving - 1
    /\ LET url == tabs[focused].url
           triple == TabTriple(url, titles[focused])
       IN  IF Falsy(url)
           THEN UNCHANGED queued
           ELSE Enqueue(<<Set("domain", triple[1]), Set("url", triple[2]),
                          Set("title", triple[3])>>)
    /\ UNCHANGED <<currentDomain, currentUrl, currentTitle, viewMode, panelMemos,
                   activeMemoId, effectOf, timers, saveTimeoutRef, fetch, hist>>
    /\ UNCHANGED <<mounted, nextHandle, clock, deleting, switches>>
    /\ UNCHANGED <<titles, nextId, creating, clicks, panelOpen, inbox, importing>>
    /\ UNCHANGED <<storeVars, bgVars>>

\* the user switches to tab t; the panel's handleActivated calls updateTabInfo
TabActivated(t) ==
    /\ t # focused
    /\ tabEvents < MaxNav
    /\ tabEvents' = tabEvents + 1
    /\ focused' = t
    /\ resolving' = IF Registered THEN resolving + 1 ELSE resolving
    /\ UNCHANGED <<listening, tabs, badge, menuTitle, handlers, lastDone>>
    /\ UNCHANGED <<currentDomain, currentUrl, currentTitle, viewMode, panelMemos,
                   activeMemoId, queued, effectOf, timers, saveTimeoutRef, fetch, hist>>
    /\ UNCHANGED <<mounted, nextHandle, clock, deleting, switches>>
    /\ UNCHANGED <<titles, nextId, creating, clicks, panelOpen, inbox, importing>>
    /\ UNCHANGED storeVars

\* tab t commits a navigation to url (tabs.onUpdated with changeInfo.url, the
\* title still that of the page before); handleUpdated calls updateTabInfo.
\* A page that exposes no URL gives no changeInfo.url.
TabUrlChanged(t, url) ==
    /\ url # tabs[t].url
    /\ tabEvents < MaxNav
    /\ tabEvents' = tabEvents + 1
    /\ tabs' = [tabs EXCEPT ![t].url = url]
    /\ resolving' = IF Registered /\ ~Falsy(url) THEN resolving + 1 ELSE resolving
    /\ UNCHANGED <<listening, focused, badge, menuTitle, handlers, lastDone>>
    /\ UNCHANGED <<currentDomain, currentUrl, currentTitle, viewMode, panelMemos,
                   activeMemoId, queued, effectOf, timers, saveTimeoutRef, fetch, hist>>
    /\ UNCHANGED <<mounted, nextHandle, clock, deleting, switches>>
    /\ UNCHANGED <<titles, nextId, creating, clicks, panelOpen, inbox, importing>>
    /\ UNCHANGED storeVars

\* the page in tab t sets its title (tabs.onUpdated with changeInfo.title
\* only): handleUpdated does nothing
TabTitleChanged(t) ==
    /\ titles[t] # TitleOf(tabs[t].url)
    /\ titles' = [titles EXCEPT ![t] = TitleOf(tabs[t].url)]
    /\ UNCHANGED <<currentUrl, currentTitle, resolving, nextId, creating, clicks,
                   panelOpen, inbox, importing>>
    /\ UNCHANGED <<storeVars, bgVars, panelVars>>

----------------------------------------------------------------------------
(* SpecPanel: the panel over a store of two notes of one site.              *)

PanelStore ==
    LET m1 == Memo("m1", "Note", "v0", "example.com", UrlA, 1, 1)
        m2 == Memo("m2", "Note", "v0", "example.com", UrlB, 2, 2)
    IN  PutKey(PutKey(EmptyStore, "m1", m1), "m2", m2)

\* the panel has just mounted in the extension, beside a tab of the site and
\* one of another site: useCurrentDomain starts with null, so the first
\* effect loads the empty list without awaiting; one tab event and one other
\* change of the panel's subject follow
InitPanel ==
    /\ isExtension = TRUE
    /\ store = PanelStore
    /\ calls = [p \in PanelCalls |-> Idle]
    /\ ret = [p \in PanelCalls |-> NoRet]
    /\ overlapped = FALSE
    /\ expected = PanelStore.vals
    /\ lastWrite = NoWrite
    /\ issued = 0
    /\ listening = FALSE
    /\ tabs = [t \in Tabs |-> [url |-> IF t = 1 THEN UrlA ELSE UrlC]]
    /\ focused = 1
    /\ badge = [t \in Tabs |-> ""]
    /\ menuTitle = MenuCreate
    /\ handlers = [h \in HandlerIds |-> IdleHandler]
    /\ lastDone = NoneDone
    /\ tabEvents = 0
    /\ mounted = TRUE
    /\ currentDomain = Null
    /\ viewMode = "domain"
    /\ panelMemos = <<>>
    /\ activeMemoId = Null
    /\ saveTimeoutRef = 0
    /\ timers = {}
    /\ nextHandle = 1
    /\ clock = 2
    /\ fetch = NoFetch
    /\ deleting = [p \in DeleteSlots |-> NoDelete]
    /\ queued = <<>>
    /\ effectOf = NoEffects
    /\ hist = NoHist
    /\ switches = MaxSwitches - 1
    /\ currentUrl = Null
    /\ currentTitle = Null
    /\ resolving = 0
    /\ titles = [t \in Tabs |-> TitleOf(tabs[t].url)]
    /\ nextId = 1
    /\ creating = [p \in CreateSlots |-> NoCreate]
    /\ clicks = <<>>
    /\ panelOpen = {}
    /\ inbox = <<>>
    /\ importing = NoImports

\* the panel's subject may change once more: by a tab event, or by the user
ChangesLeft == switches + tabEvents < MaxSwitches

NextPanel ==
    \/ Render
    \/ Effects
    \/ FetchResolve
    \/ UpdateTabInfoResolves
    \/ ChangesLeft /\ \E t \in Tabs : TabActivated(t)
    \/ ChangesLeft /\ \E t \in Tabs, url \in {UrlB, BadUrl} : TabUrlChanged(t, url)
    \/ ChangesLeft /\ ToggleViewMode
    \/ ChangesLeft /\ \E id \in MemoIds : SelectMemo(id)
    \/ Edit("v1")
    \/ EditTitle("T1")
    \/ \E p \in AutosaveCalls : TimerFire(p)
    \/ \E p \in AutosaveCalls : SaveMemoGet(p)
    \/ \E p \in AutosaveCalls : SaveMemoSet(p)
    \/ Tick
    \/ ChangesLeft /\ DeleteMemoStart
    \/ \E p \in DeleteSlots : DeleteMemoGet(p)
    \/ \E p \in DeleteSlots : DeleteStorageDone(p)
    \/ \E p \in DeleteSlots : DeleteLoadResolves(p)
    \/ ChangesLeft /\ Unmount

SpecPanel == InitPanel /\ [][NextPanel]_vars

----------------------------------------------------------------------------
(* Claims about the autosave.                                               *)

\* C2 (as claimed): at most one autosave timer is pending; unless an unmount,
\* a switch of note or a delete has cancelled the timer of the last edit, it
\* is the one pending timer, set for DebounceMs after that edit, until its
\* callback runs, and then exactly one saveMemo call has been issued since
\* the edit, once those DebounceMs had passed and carrying the state of that
\* edit.
C2_SavedUnlessUnmountSwitchDelete ==
    /\ Cardinality(timers) <= 1
    /\ (hist.edits > 0 /\ ~(hist.dropped /\ hist.why \in {"unmount", "note", "delete"})) =>
          /\ hist.saves <= 1
          /\ hist.saves = 0 =>
                \E t \in timers :
                    /\ timers = {t}
                    /\ t.handle = saveTimeoutRef
                    /\ t.due = hist.at + 1000
                    /\ t.memo = hist.memo
          /\ hist.saves = 1 =>
                /\ timers = {}
                /\ hist.savedAt >= hist.at + 1000
                /\ hist.savedMemo = hist.memo

\* C2: at most one autosave timer is pending; while the timer of the last
\* edit has not been cancelled by an unmount, a delete, or the effect's
\* cleanup (after a change of note, domain or view mode, the change rendered
\* before the edit with its effects still to run included), it is the one
\* pending timer, set for DebounceMs after that edit, until its callback
\* runs, and then exactly one saveMemo call has been issued since the edit,
\* once those DebounceMs had passed and carrying the state of that edit.
C2_DebouncedAutosave ==
    /\ Cardinality(timers) <= 1
    /\ (hist.edits > 0 /\ ~hist.dropped) =>
          /\ hist.saves <= 1
          /\ hist.saves = 0 =>
                \E t \in timers :
                    /\ timers = {t}
                    /\ t.handle = saveTimeoutRef
                    /\ t.due = hist.at + 1000
                    /\ t.memo = hist.memo
          /\ hist.saves = 1 =>
                /\ timers = {}
                /\ hist.savedAt >= hist.at + 1000
                /\ hist.savedMemo = hist.memo

\* two edits less than DebounceMs apart, then one saveMemo call, DebounceMs
\* after the second and carrying it
C2_Witness ==
    /\ hist.edits = 2
    /\ ~hist.dropped
    /\ hist.saves = 1
    /\ hist.savedMemo = hist.memo
    /\ clock = hist.at + 1000
    /\ \E p \in AutosaveCalls : calls[p].op = "save" /\ calls[p].memo = hist.memo

\* the view mode was toggled less than DebounceMs after an edit: the timer is
\* gone and no saveMemo call was issued for the edit
C2_DroppedByViewChange ==
    /\ hist.dropped /\ hist.why = "deps"
    /\ hist.deps[1] = currentDomain /\ hist.deps[2] # viewMode
    /\ timers = {} /\ hist.saves = 0

\* the edit was made after a change was rendered and before its effects ran:
\* their cleanup cleared the timer of the edit
C2_DroppedByPendingCleanup ==
    /\ hist.dropped /\ hist.why = "stale"
    /\ timers = {} /\ hist.saves = 0

\* C3 (as claimed): the callback of an autosave timer runs only while the
\* hook is mounted with the domain, the view mode and the active note id of
\* the edit, so no saveMemo call is issued for an edit after one of them
\* changed; once an unmount or a change of one of these has cancelled the
\* timer of the last edit, no saveMemo call is issued for that edit and the
\* store never holds it.
C3_CancelledNeverSaved ==
    /\ hist.saves > 0 => hist.savedDeps = hist.deps
    /\ hist.dropped =>
          /\ timers = {}
          /\ hist.saves = 0
          /\ \A p \in DOMAIN calls : calls[p].op = "save" => calls[p].memo # hist.memo
          /\ \A k \in DOMAIN store.vals : store.vals[k] # hist.memo

\* C3 for the timers the cleanup has cancelled, and for notes selected by a
\* click in the list: the cleanup runs in the step of the click
C3_CancelledByCleanup ==
    hist.dropped =>
        /\ timers = {}
        /\ hist.saves = 0
        /\ \A p \in DOMAIN calls : calls[p].op = "save" => calls[p].memo # hist.memo
        /\ \A k \in DOMAIN store.vals : store.vals[k] # hist.memo

\* the note was edited, another note was selected before the timer was due,
\* and well after the due time the stored note is still the one of before
C3_Witness ==
    /\ hist.dropped
    /\ mounted
    /\ activeMemoId # hist.memo.id
    /\ clock > hist.at + 1000
    /\ hist.memo.id \in DOMAIN store.vals
    /\ store.vals[hist.memo.id].content = "v0"
    /\ hist.memo.content # "v0"

\* the panel closed while the timer was pending
C3_WitnessUnmount ==
    /\ hist.dropped
    /\ ~mounted
    /\ clock > hist.at + 1000
    /\ store.vals[hist.memo.id].content = "v0"

----------------------------------------------------------------------------
(* Side panel, continued: mounting, createMemo and the runtime.onMessage     *)
(* listener of App.                                                         *)

\* the side panel page loads (the toolbar icon or chrome.sidePanel.open):
\* App is rendered with the initial state of its hooks; its effects have not
\* run yet
PanelMount ==
    /\ ~mounted
    /\ mounted' = TRUE
    /\ currentDomain' = Null
    /\ currentUrl' = Null
    /\ currentTitle' = Null
    /\ viewMode' = "domain"
    /\ panelMemos' = <<>>
    /\ activeMemoId' = Null
    /\ queued' = <<>>
    /\ effectOf' = NoEffects
    /\ saveTimeoutRef' = 0
    /\ fetch' = NoFetch
    /\ hist' = NoHist
    /\ resolving' = 0
    /\ UNCHANGED <<timers, nextHandle, clock, deleting, switches>>
    /\ UNCHANGED <<titles, nextId, creating, clicks, panelOpen, inbox, importing>>
    /\ UNCHANGED <<storeVars, bgVars>>

\* uuidv4(): what the n-th call may return.  The ids are random: a later one
\* sorts before or after the first (the letter), and no two are equal (the
\* number); a uuid begins with a hex digit, so each sorts before the ids
\* "m1", "m2", "m3" of the notes stored at the start
uuidv4(n) == IF n = 1 THEN {"c1"} ELSE {"b" \o ToString(n), "d" \o ToString(n)}

\* String(n).padStart(2, '0')
Pad2(n) == IF n < 10 THEN "0" \o ToString(n) ELSE ToString(n)

\* `${year}-${month}-${date} ${hours}:${minutes}` of new Date(ms), for a time
\* zone at offset 0 and ms within the first day of the epoch
FormatDate(ms) ==
    "1970-01-01 " \o Pad2((ms \div 3600000) % 24) \o ":" \o Pad2((ms \div 60000) % 60)

\* the frontmatter template literal of createMemo
Frontmatter(url, title, ms) ==
    "---\nURL: " \o url \o "\ntitle: " \o (IF Falsy(title) THEN "" ELSE title)
        \o "\ncreated_at: " \o FormatDate(ms) \o "\n---\n\n"

\* displayTitle
DisplayTitle(title) == IF Falsy(title) THEN "New Note" ELSE "Note: " \o title

\* the clock moves by at most this many ms between the first and the last of
\* createMemo's three reads of it
MaxReadGap == 1

\* what new Date(), Date.now() and Date.now() return in createMemo: three
\* reads of a clock that does not go back
ClockReads ==
    {<<clock, clock + gh[1], clock + gh[1] + gh[2]>> :
        gh \in {p \in (0..MaxReadGap) \X (0..MaxReadGap) : p[1] + p[2] <= MaxReadGap}}

\* the newMemo createMemo builds with the n-th generated id, from the
\* domain, url and title of the render c it belongs to and its three reads
\* of the clock
NewMemo(id, c, reads) ==
    Memo(id, DisplayTitle(c.title), Frontmatter(c.url, c.title, reads[1]),
         c.domain, c.url, reads[2], reads[3])

\* createMemo of the render c, up to the await inside saveMemo(newMemo);
\* nothing happens without a domain or a url
createMemo(c) ==
    IF Falsy(c.domain) \/ Falsy(c.url)
    THEN UNCHANGED <<storeVars, bgVars, creating, nextId, clock>>
    ELSE /\ FreeTask(creating, "create") # ""
         /\ \E reads \in ClockReads, id \in uuidv4(nextId) :
               LET p == FreeTask(creating, "create")
                   newMemo == NewMemo(id, c, reads)
               IN  /\ saveMemo(p, newMemo)
                   /\ creating' = [creating EXCEPT ![p] =
                                      [pc |-> "save", memo |-> newMemo,
                                       domain |-> c.domain, viewMode |-> c.viewMode,
                                       activeMemoId |-> c.activeMemoId,
                                       orphan |-> FALSE]]
                   /\ clock' = reads[3]
                   /\ clock' <= MaxClock
         /\ nextId' = nextId + 1

\* createMemo: saveMemo completes; loadMemos runs up to its await
CreateSaveDone(p) ==
    /\ creating[p].pc = "save"
    /\ SaveMemoSetResolves(p)
    /\ creating' = [creating EXCEPT ![p].pc = "load"]
    /\ UNCHANGED panelVars
    /\ UNCHANGED <<currentUrl, currentTitle, resolving, titles, nextId, clicks,
                   panelOpen, inbox, importing>>

\* createMemo: loadMemos' store read resolves: setMemos(loaded), with
\* nothing selected setActiveMemoId(loaded[0].id), then
\* setActiveMemoId(newMemo.id)
CreateLoadResolves(p) ==
    /\ creating[p].pc = "load"
    /\ creating' = [creating EXCEPT ![p] = NoCreate]
    /\ LET loaded == LoadedFor(creating[p].viewMode, creating[p].domain)
       IN  IF creating[p].orphan THEN UNCHANGED queued
           ELSE Enqueue(<<Set("memos", loaded)>> \o
                        (IF Len(loaded) > 0 /\ Falsy(creating[p].activeMemoId)
                         THEN <<Set("activeMemoId", loaded[1].id)>> ELSE <<>>) \o
                        <<Set("activeMemoId", creating[p].memo.id)>>)
    /\ UNCHANGED <<currentDomain, currentUrl, currentTitle, viewMode, panelMemos,
                   activeMemoId, effectOf, timers, saveTimeoutRef, fetch, hist, resolving>>
    /\ UNCHANGED <<mounted, nextHandle, clock, deleting, switches>>
    /\ UNCHANGED <<titles, nextId, clicks, panelOpen, inbox, importing>>
    /\ UNCHANGED <<storeVars, bgVars>>

\* the "New Note" item of the panel's menu: setIsOpen(false) is rendered and
\* createMemo of the last render is called
CreateMemoClick ==
    /\ Shown
    /\ createMemo(Closure(Panel))
    /\ Becomes(AfterEvent(Panel, <<>>))
    /\ UNCHANGED <<mounted, nextHandle, deleting, switches>>
    /\ UNCHANGED <<titles, clicks, panelOpen, inbox, importing>>

\* variant: every message starts the creation flow
HandleKindAlwaysCreate(msg) == "create"

\* handleMessage: which branch a message takes
HandleKind(msg) ==
    IF msg.type = "OPEN_MEMO" /\ ~Falsy(msg.memoId) THEN "select"
    ELSE IF msg.type = "CREATE_MEMO" THEN "create"
    ELSE "ignore"

\* the oldest dispatched message reaches the runtime.onMessage listener
\* registered then, the handleMessage of the render whose effects ran last:
\* it calls setActiveMemoId(message.memoId) or that render's createMemo();
\* history: the click's record keeps what the listener did
PanelHandleMessage ==
    /\ inbox # <<>>
    /\ inbox' = Tail(inbox)
    /\ LET msg == Head(inbox)
           kind == IF Registered THEN HandleKind(msg) ELSE "unmounted"
       IN  /\ IF kind = "select"
              THEN Enqueue(<<Set("activeMemoId", msg.memoId)>>)
              ELSE UNCHANGED queued
           /\ IF kind = "create"
              THEN createMemo(effectOf)
              ELSE UNCHANGED <<storeVars, bgVars, creating, nextId, clock>>
           /\ clicks' = [clicks EXCEPT ![msg.click] =
                            [@ EXCEPT !.pc = "handled", !.handledAs = kind,
                                      !.closure = effectOf,
                                      !.idsBefore = nextId,
                                      !.idsAfter = nextId']]
    /\ UNCHANGED <<currentDomain, currentUrl, currentTitle, viewMode, panelMemos,
                   activeMemoId, effectOf, timers, saveTimeoutRef, fetch, hist, resolving>>
    /\ UNCHANGED <<mounted, nextHandle, deleting, switches>>
    /\ UNCHANGED <<titles, panelOpen, importing>>

----------------------------------------------------------------------------
(* Background: the contextMenus.onClicked listener.                         *)

\* setTimeout(() => chrome.runtime.sendMessage(...), 500)
ClickDelayMs == 500

\* the user clicks the menu item at most this many times
MaxClicks == 2

\* variant: the first note of the page's site
ExistingIdBySite(memoList, url) ==
    IF \E i \in DOMAIN memoList : Hostname(memoList[i].url) = Hostname(url)
    THEN memoList[CHOOSE i \in DOMAIN memoList :
                      /\ Hostname(memoList[i].url) = Hostname(url)
                      /\ \A j \in 1..(i - 1) : Hostname(memoList[j].url) # Hostname(url)].id
    ELSE Null

\* memoList.find(m => m.url === tab.url)?.id
ExistingId(memoList, url) ==
    IF \E i \in DOMAIN memoList : memoList[i].url = url
    THEN memoList[CHOOSE i \in DOMAIN memoList :
                      /\ memoList[i].url = url
                      /\ \A j \in 1..(i - 1) : memoList[j].url # url].id
    ELSE Null

\* the message of a click: { type, memoId, url, title }; `click` is history
MessageOf(i) ==
    [type |-> IF clicks[i].existing # Null THEN "OPEN_MEMO" ELSE "CREATE_MEMO",
     memoId |-> clicks[i].existing, url |-> clicks[i].url, title |-> clicks[i].title,
     click |-> i]

\* variant: a message without a receiver waits for one
DispatchQueued(queue, msg, receiver) == Append(queue, msg)

\* chrome.runtime.sendMessage: the message reaches the listener registered
\* at that moment; without one the promise rejects and the message is gone
Dispatch(queue, msg, receiver) == IF receiver THEN Append(queue, msg) ELSE queue

\* the user clicks "domain-memo-action" in the focused tab; with tab.id and
\* tab.url the listener runs up to `await chrome.sidePanel.open`
ContextMenuClick ==
    /\ Len(clicks) < MaxClicks
    /\ clicks' = Append(clicks,
                     [pc |-> IF Falsy(tabs[focused].url) THEN "ignored" ELSE "open",
                      tab |-> focused, url |-> tabs[focused].url,
                      title |-> titles[focused], existing |-> Null, from |-> EmptyStore,
                      openedFirst |-> FALSE, due |-> 0, sentAt |-> 0, sends |-> 0,
                      readAt |-> 0, handledAs |-> "none", closure |-> NoEffects,
                      idsBefore |-> 0, idsAfter |-> 0])
    /\ UNCHANGED <<currentUrl, currentTitle, resolving, titles, nextId, creating,
                   panelOpen, inbox, importing>>
    /\ UNCHANGED <<storeVars, bgVars, panelVars>>

\* chrome.sidePanel.open({ tabId }) resolves; chrome.storage.local.get is called
SidePanelOpenResolves(i) ==
    /\ clicks[i].pc = "open"
    /\ panelOpen' = panelOpen \cup {clicks[i].tab}
    /\ clicks' = [clicks EXCEPT ![i].pc = "get"]
    /\ UNCHANGED <<currentUrl, currentTitle, resolving, titles, nextId, creating,
                   inbox, importing>>
    /\ UNCHANGED <<storeVars, bgVars, panelVars>>

\* the storage get resolves: existingMemo is looked up and the timer set
ClickStorageGetResolves(i) ==
    /\ clicks[i].pc = "get"
    /\ clicks' = [clicks EXCEPT ![i] =
                     [@ EXCEPT !.pc = "timer",
                               !.existing = ExistingId(ObjectValues(store), clicks[i].url),
                               !.from = store,
                               !.openedFirst = clicks[i].tab \in panelOpen,
                               !.readAt = clock,
                               !.due = clock + ClickDelayMs]]
    /\ UNCHANGED <<currentUrl, currentTitle, resolving, titles, nextId, creating,
                   panelOpen, inbox, importing>>
    /\ UNCHANGED <<storeVars, bgVars, panelVars>>

\* the timer fires: chrome.runtime.sendMessage({...}); a rejection is logged
ClickTimerFires(i) ==
    /\ clicks[i].pc = "timer"
    /\ clicks[i].due <= clock
    /\ inbox' = Dispatch(inbox, MessageOf(i), Registered)
    /\ clicks' = [clicks EXCEPT ![i] =
                     [@ EXCEPT !.pc = IF Registered THEN "sent" ELSE "dropped",
                               !.sentAt = clock, !.sends = @ + 1]]
    /\ UNCHANGED <<currentUrl, currentTitle, resolving, titles, nextId, creating,
                   panelOpen, importing>>
    /\ UNCHANGED <<storeVars, bgVars, panelVars>>

----------------------------------------------------------------------------
(* SpecClick: context-menu clicks in two tabs of one site, the panel closed  *)
(* at first; the user goes from the first tab to the second.  The badge     *)
(* listeners of the background write only the badge and the menu title and  *)
(* are left out here.                                                        *)

ClickStore ==
    LET m1 == Memo("m1", "Note", "v0", "example.com", UrlA, 0, 0)
        m2 == Memo("m2", "Note", "v0", "other.org", UrlC, 0, 0)
    IN  PutKey(PutKey(EmptyStore, "m1", m1), "m2", m2)

ClickCalls == CreateSlots

\* the time of the first click
ClickStart == 1000

InitClick ==
    /\ isExtension = TRUE
    /\ store = ClickStore
    /\ calls = [p \in ClickCalls |-> Idle]
    /\ ret = [p \in ClickCalls |-> NoRet]
    /\ overlapped = FALSE
    /\ expected = ClickStore.vals
    /\ lastWrite = NoWrite
    /\ issued = 0
    /\ listening = FALSE
    /\ tabs = [t \in Tabs |-> [url |-> IF t = 1 THEN UrlA ELSE UrlB]]
    /\ focused = 1
    /\ badge = [t \in Tabs |-> ""]
    /\ menuTitle = MenuCreate
    /\ handlers = [h \in HandlerIds |-> IdleHandler]
    /\ lastDone = NoneDone
    /\ tabEvents = 0
    /\ mounted = FALSE
    /\ currentDomain = Null
    /\ viewMode = "domain"
    /\ panelMemos = <<>>
    /\ activeMemoId = Null
    /\ saveTimeoutRef = 0
    /\ timers = {}
    /\ nextHandle = 1
    /\ clock = ClickStart
    /\ fetch = NoFetch
    /\ deleting = [p \in DeleteSlots |-> NoDelete]
    /\ queued = <<>>
    /\ effectOf = NoEffects
    /\ hist = NoHist
    /\ switches = 0
    /\ currentUrl = Null
    /\ currentTitle = Null
    /\ resolving = 0
    /\ titles = [t \in Tabs |-> IF t = 1 THEN TitleOf(UrlA) ELSE TitleOf(UrlB)]
    /\ nextId = 1
    /\ creating = [p \in CreateSlots |-> NoCreate]
    /\ clicks = <<>>
    /\ panelOpen = {}
    /\ inbox = <<>>
    /\ importing = NoImports

\* the user clicks the menu item at most this many times on the page that
\* has no note at the start: each of these clicks has the panel create one
MaxNewPageClicks == 1

\* a further click on the page of the focused tab may happen
MayClick ==
    tabs[focused].url = UrlB
        => Cardinality({i \in DOMAIN clicks : clicks[i].url = UrlB}) < MaxNewPageClicks

NextClick ==
    \/ MayClick /\ ContextMenuClick
    \/ \E i \in 1..MaxClicks : i \in DOMAIN clicks /\ SidePanelOpenResolves(i)
    \/ \E i \in 1..MaxClicks : i \in DOMAIN clicks /\ ClickStorageGetResolves(i)
    \/ \E i \in 1..MaxClicks : i \in DOMAIN clicks /\ ClickTimerFires(i)
    \/ Tick
    \/ focused = 1 /\ TabActivated(2)
    \/ PanelMount
    \/ UpdateTabInfoResolves
    \/ Render
    \/ Effects
    \/ FetchResolve
    \/ PanelHandleMessage
    \/ \E p \in CreateSlots : SaveMemoGet(p)
    \/ \E p \in CreateSlots : CreateSaveDone(p)
    \/ \E p \in CreateSlots : CreateLoadResolves(p)

SpecClick == InitClick /\ [][NextClick]_vars

\* the clicks of which the background has read the store
Looked == {i \in DOMAIN clicks : clicks[i].pc \in {"timer", "sent", "dropped", "handled"}}

\* the ids of the notes read by click i whose url is the url of its tab
UrlMatches(i) ==
    {k \in Range(clicks[i].from.keys) : clicks[i].from.vals[k].url = clicks[i].url}

\* C11: after a click in a tab with a URL the side panel of that tab is
\* opened before the store is read, and the message of the click is "open"
\* with the id of a stored note whose url equals the tab's URL when there is
\* such a note, and "create" with the tab's URL and title when there is none.
C11_ClickMessageMatchesStore ==
    /\ \A i \in DOMAIN clicks :
           clicks[i].pc \in {"get", "timer", "sent", "dropped", "handled"}
               => clicks[i].tab \in panelOpen
    /\ \A i \in Looked :
           /\ clicks[i].openedFirst
           /\ IF UrlMatches(i) = {}
              THEN /\ MessageOf(i).type = "CREATE_MEMO"
                   /\ MessageOf(i).url = clicks[i].url
                   /\ MessageOf(i).title = clicks[i].title
              ELSE /\ MessageOf(i).type = "OPEN_MEMO"
                   /\ MessageOf(i).memoId \in UrlMatches(i)
    /\ \A n \in DOMAIN inbox :
           /\ inbox[n].click \in Looked
           /\ inbox[n] = MessageOf(inbox[n].click)

\* both kinds of message were sent: one click on the page of a note, one on
\* another page of the same site
C11_Witness ==
    \E i, j \in DOMAIN clicks :
        /\ clicks[i].pc \in {"sent", "handled"}
        /\ clicks[j].pc \in {"sent", "handled"}
        /\ MessageOf(i).type = "OPEN_MEMO"
        /\ MessageOf(j).type = "CREATE_MEMO"
        /\ Hostname(clicks[i].url) = Hostname(clicks[j].url)

\* the clicks whose message the panel's listener has received
Handled == {i \in DOMAIN clicks : clicks[i].pc = "handled" /\ clicks[i].handledAs # "unmounted"}

\* the ids of a list
Ids(list) == {list[i].id : i \in DOMAIN list}

\* the listener of click i's message had a domain and a url
HadContext(i) == ~(Falsy(clicks[i].closure.domain) \/ Falsy(clicks[i].closure.url))

\* the id of click i's message is the active note id of the last render, and
\* no other selection is waiting to be rendered
Selected(i) ==
    /\ mounted
    /\ activeMemoId = MessageOf(i).memoId
    /\ \A n \in DOMAIN queued : queued[n].hook # "activeMemoId"

\* a step in which the listener receives the message of click i
HandleStep(i) ==
    /\ i \in DOMAIN clicks /\ clicks[i].pc = "sent"
    /\ clicks'[i].pc = "handled" /\ clicks'[i].handledAs # "unmounted"

\* a render that has selections to apply
RenderStep ==
    /\ mounted /\ mounted' /\ queued # <<>> /\ queued' = <<>>
    /\ \E n \in DOMAIN queued : queued[n].hook = "activeMemoId"

\* the last selection queued
LastSelection ==
    queued[CHOOSE n \in DOMAIN queued :
              /\ queued[n].hook = "activeMemoId"
              /\ \A k \in DOMAIN queued : queued[k].hook = "activeMemoId" => k <= n].value

\* C12 as stated: on OPEN_MEMO the id of the message becomes the active note
\* id and the active note resolves to that record; on CREATE_MEMO the
\* creation flow is invoked once.
C12_OpenSelectsAndResolves ==
    \A i \in Handled :
        /\ MessageOf(i).type = "OPEN_MEMO"
               => /\ clicks[i].handledAs = "select"
                  /\ Selected(i) => HasActiveMemo
        /\ MessageOf(i).type = "CREATE_MEMO"
               => /\ clicks[i].handledAs = "create"
                  /\ clicks[i].idsAfter - clicks[i].idsBefore
                         = IF HadContext(i) THEN 1 ELSE 0

\* C12, amended: on OPEN_MEMO setActiveMemoId is called with the id of the
\* message, and the render that follows makes the selection queued last the
\* active note id, whatever the list holds; the active note is that record
\* when the list the panel holds contains it; on CREATE_MEMO createMemo is
\* called once, and it generates one id when the listener's render has a
\* domain and a url and none otherwise.
C12_OpenSelectsId ==
    /\ [](\A i \in Handled :
             /\ MessageOf(i).type = "OPEN_MEMO"
                    => /\ clicks[i].handledAs = "select"
                       /\ (Selected(i) /\ MessageOf(i).memoId \in Ids(panelMemos))
                              => HasActiveMemo /\ activeMemo.id = MessageOf(i).memoId
             /\ MessageOf(i).type = "CREATE_MEMO"
                    => /\ clicks[i].handledAs = "create"
                       /\ clicks[i].idsAfter - clicks[i].idsBefore
                              = IF HadContext(i) THEN 1 ELSE 0)
    /\ [][\A i \in 1..MaxClicks :
              (HandleStep(i) /\ MessageOf(i).type = "OPEN_MEMO")
                  => queued' = Append(queued, Set("activeMemoId", MessageOf(i).memoId))]_vars
    /\ [][RenderStep => activeMemoId' = LastSelection]_vars

\* an OPEN_MEMO message was received after the list was loaded: the active
\* note is the record of the message
C12_Witness ==
    \E i \in Handled :
        /\ MessageOf(i).type = "OPEN_MEMO"
        /\ Selected(i)
        /\ HasActiveMemo
        /\ clicks[i].closure.activeMemoId # MessageOf(i).memoId

\* a CREATE_MEMO message was received and a note created from it is stored
C12_WitnessCreate ==
    \E i \in Handled :
        /\ MessageOf(i).type = "CREATE_MEMO"
        /\ clicks[i].idsAfter = clicks[i].idsBefore + 1
        /\ \E id \in uuidv4(clicks[i].idsBefore) : id \in Range(store.keys)

\* the clicks whose timer callback has run
Fired == {i \in DOMAIN clicks : clicks[i].pc \in {"sent", "dropped", "handled"}}

\* click i's message is waiting at the listener
InInbox(i) == \E n \in DOMAIN inbox : inbox[n].click = i

\* a step in which the timer callback of click i finds no listener
DroppedStep(i) ==
    /\ i \in DOMAIN clicks /\ clicks[i].pc = "timer"
    /\ clicks'[i].pc = "dropped"

\* C13: the message of a click is sent once at most, and when its timer
\* callback has run exactly once, its timer set for 500 ms after the store
\* was read and the callback run once that time had passed; a message
\* sent while no listener is registered reaches no listener then or later,
\* and the step that drops it changes neither the store nor the active note.
C13_SentOnceOrDropped ==
    /\ [](\A i \in DOMAIN clicks :
             /\ clicks[i].sends <= 1
             /\ i \in Fired => /\ clicks[i].sends = 1
                               /\ clicks[i].due = clicks[i].readAt + 500
                               /\ clicks[i].sentAt >= clicks[i].due
             /\ i \notin Fired => clicks[i].sends = 0 /\ ~InInbox(i)
             /\ clicks[i].pc = "dropped" => ~InInbox(i) /\ clicks[i].handledAs = "none"
             /\ Cardinality({n \in DOMAIN inbox : inbox[n].click = i}) <= 1)
    /\ [][\A i \in 1..MaxClicks :
              DroppedStep(i) => /\ store' = store
                                /\ activeMemoId' = activeMemoId
                                /\ queued' = queued
                                /\ inbox' = inbox]_vars

\* a message was dropped, the panel has mounted since, and time has passed:
\* nothing arrives
C13_Witness ==
    \E i \in DOMAIN clicks :
        /\ clicks[i].pc = "dropped"
        /\ mounted
        /\ clock > clicks[i].sentAt
        /\ inbox = <<>>

----------------------------------------------------------------------------
(* The options page: handleImportFile.  An element of the parsed array is   *)
(* a record with the set `has` of the fields that are present with the type *)
(* interface Memo declares, and the set `odd` of the fields that hold a     *)
(* truthy value of another type (a title 5, an isUrlSpecific "yes").  A     *)
(* field in neither set is absent, or holds a falsy value of another type   *)
(* (null, 0), which every test of the code takes like an absent one.        *)

ImportElem(has, id, domain, createdAt, updatedAt) ==
    [has |-> has, odd |-> {}, id |-> id, title |-> "Imported", content |-> "v0",
     domain |-> domain, url |-> UrlA, isUrlSpecific |-> TRUE,
     createdAt |-> createdAt, updatedAt |-> updatedAt]

AllFields == {"id", "title", "content", "domain", "url", "isUrlSpecific",
              "createdAt", "updatedAt"}

\* m && typeof m.id === 'string' && typeof m.domain === 'string' &&
\* typeof m.content === 'string'
ValidElem(m) == {"id", "domain", "content"} \subseteq m.has

\* what the Date.now() of createdAt and the Date.now() of updatedAt return
\* for element m, the one of createdAt first: reads of a clock that does not
\* go back; a timestamp that is a number is taken without a read
ImportReads(m) ==
    {<<clock, clock + g>> :
        g \in IF {"createdAt", "updatedAt"} \subseteq m.has THEN {0} ELSE 0..MaxReadGap}

\* a copy of the element as it stands, absent fields included
SanitizedMemoAsGiven(m, reads) ==
    [id |-> m.id, title |-> m.title, content |-> m.content, domain |-> m.domain,
     url |-> m.url, isUrlSpecific |-> m.isUrlSpecific,
     createdAt |-> m.createdAt, updatedAt |-> m.updatedAt]

\* sanitizedMemo, its two Date.now() returning reads[1] and reads[2]:
\* m.title || 'Untitled' and !!m.isUrlSpecific test no type, the url and the
\* timestamps are taken when they have the declared type
SanitizedMemo(m, reads) ==
    [id |-> m.id,
     title |-> IF "title" \in m.has \cup m.odd /\ m.title # "" THEN m.title ELSE "Untitled",
     content |-> m.content,
     domain |-> m.domain,
     url |-> IF "url" \in m.has THEN m.url ELSE "",
     isUrlSpecific |-> \/ "isUrlSpecific" \in m.has /\ m.isUrlSpecific
                       \/ "isUrlSpecific" \in m.odd,
     createdAt |-> IF "createdAt" \in m.has THEN m.createdAt ELSE reads[1],
     updatedAt |-> IF "updatedAt" \in m.has THEN m.updatedAt ELSE reads[2]]

\* the files the user may pick
FileMixed ==
    << ImportElem(AllFields \ {"domain"}, "x1", "", 1, 1),
       ImportElem({"id", "domain", "content"}, "x2", "example.com", 0, 0) >>
FileEmptyStrings == << ImportElem(AllFields, "", "", 1, 1) >>
FileBackdated == << ImportElem(AllFields, "m1", "example.com", 2, 1) >>

\* the index of the first valid element of file from i on, or Len(file) + 1
NextValid(file, i) ==
    IF \E j \in i..Len(file) : ValidElem(file[j])
    THEN CHOOSE j \in i..Len(file) :
             ValidElem(file[j]) /\ \A k \in i..(j - 1) : ~ValidElem(file[k])
    ELSE Len(file) + 1

\* reader.onload: the array is parsed and the loop runs up to the first
\* `await saveMemo(sanitizedMemo)`, or to its end when no element is valid;
\* nothing keeps the user from picking a file while an earlier loop awaits.
\* history: a slot keeps the outcome of its call, and sent, the records
\* handed to saveMemo so far; MaxTasks files are picked in a run
HandleImportFile(file) ==
    /\ FreeTask(importing, "import") # ""
    /\ LET p == FreeTask(importing, "import")
           j == NextValid(file, 1)
       IN  IF j > Len(file)
           THEN /\ importing' = [importing EXCEPT ![p] =
                                    [pc |-> "done", file |-> file, i |-> j, count |-> 0,
                                     sent |-> <<>>]]
                /\ UNCHANGED <<storeVars, bgVars, clock>>
           ELSE \E reads \in ImportReads(file[j]) :
                    /\ saveMemo(p, SanitizedMemo(file[j], reads))
                    /\ importing' = [importing EXCEPT ![p] =
                                        [pc |-> "save", file |-> file, i |-> j, count |-> 0,
                                         sent |-> <<SanitizedMemo(file[j], reads)>>]]
                    /\ clock' = reads[2]
                    /\ clock' <= MaxClock
    /\ UNCHANGED hookVars
    /\ UNCHANGED <<mounted, nextHandle, deleting, switches>>
    /\ UNCHANGED <<titles, nextId, creating, clicks, panelOpen, inbox>>

\* the saveMemo of element i of call p completes: count++, and the loop goes
\* on to the next valid element's saveMemo, or ends with setStatus
ImportSaveDone(p) ==
    /\ importing[p].pc = "save"
    /\ calls[p].op = "save" /\ calls[p].pc = "set"
    /\ StorageSet(calls[p].memos)
    /\ WriteDone(p, "save", calls[p].memo.id, calls[p].memo)
    /\ LET file == importing[p].file
           j == NextValid(file, importing[p].i + 1)
       IN  IF j > Len(file)
           THEN /\ calls' = [calls EXCEPT ![p] = Idle]
                /\ ret' = [ret EXCEPT ![p] = [op |-> "save"]]
                /\ importing' = [importing EXCEPT ![p].pc = "done", ![p].i = j,
                                                  ![p].count = @ + 1]
                /\ UNCHANGED <<overlapped, issued, clock>>
           ELSE \E reads \in ImportReads(file[j]) :
                    /\ MayHappen
                    /\ calls' = [q \in DOMAIN calls |->
                                    IF q = p
                                    THEN [op |-> "save", pc |-> "get",
                                          memo |-> SanitizedMemo(file[j], reads),
                                          memos |-> EmptyStore,
                                          alone |-> ~OthersInFlight(p)]
                                    ELSE IF InFlight(q) THEN [calls[q] EXCEPT !.alone = FALSE]
                                    ELSE calls[q]]
                    /\ issued' = issued + 1
                    /\ overlapped' = (overlapped \/ OthersInFlight(p))
                    /\ ret' = [ret EXCEPT ![p] = NoRet]
                    /\ importing' = [importing EXCEPT
                                        ![p].i = j, ![p].count = @ + 1,
                                        ![p].sent = Append(@, SanitizedMemo(file[j], reads))]
                    /\ clock' = reads[2]
                    /\ clock' <= MaxClock
    /\ UNCHANGED isExtension
    /\ UNCHANGED hookVars
    /\ UNCHANGED <<mounted, nextHandle, deleting, switches>>
    /\ UNCHANGED <<titles, nextId, creating, clicks, panelOpen, inbox>>

----------------------------------------------------------------------------
(* SpecApp: the panel open on a page of a site with one note, the options   *)
(* page open beside it, two tabs.  The panel has saved an edit before: one   *)
(* more edit follows.                                                        *)

\* the time at which the run starts
AppStart == 502

AppStore ==
    PutKey(EmptyStore, "m1", Memo("m1", "Note", "v0", "example.com", UrlA, 1, 1))

AppCalls == PanelCalls \cup CreateSlots \cup ImportSlots

InitApp ==
    /\ isExtension = TRUE
    /\ store = AppStore
    /\ calls = [p \in AppCalls |-> Idle]
    /\ ret = [p \in AppCalls |-> NoRet]
    /\ overlapped = FALSE
    /\ expected = AppStore.vals
    /\ lastWrite = NoWrite
    /\ issued = 0
    /\ listening = FALSE
    /\ tabs = [t \in Tabs |-> [url |-> IF t = 1 THEN UrlA ELSE UrlC]]
    /\ focused = 1
    /\ badge = [t \in Tabs |-> ""]
    /\ menuTitle = MenuCreate
    /\ handlers = [h \in HandlerIds |-> IdleHandler]
    /\ lastDone = NoneDone
    /\ tabEvents = 0
    /\ mounted = TRUE
    /\ currentDomain = "example.com"
    /\ viewMode = "domain"
    /\ panelMemos = getMemosByDomainOf(AppStore, "example.com")
    /\ activeMemoId = "m1"
    /\ saveTimeoutRef = 0
    /\ timers = {}
    /\ nextHandle = MaxEdits
    /\ clock = AppStart
    /\ fetch = NoFetch
    /\ deleting = [p \in DeleteSlots |-> NoDelete]
    /\ queued = <<>>
    /\ effectOf = [domain |-> "example.com", url |-> UrlA, title |-> TitleOf(UrlA),
                   viewMode |-> "domain", activeMemoId |-> "m1"]
    /\ hist = NoHist
    /\ switches = 0
    /\ currentUrl = UrlA
    /\ currentTitle = TitleOf(UrlA)
    /\ resolving = 0
    /\ titles = [t \in Tabs |-> IF t = 1 THEN TitleOf(UrlA) ELSE TitleOf(UrlC)]
    /\ nextId = 1
    /\ creating = [p \in CreateSlots |-> NoCreate]
    /\ clicks = <<>>
    /\ panelOpen = {1}
    /\ inbox = <<>>
    /\ importing = NoImports

\* the storage calls of one run of the application
MaxAppCalls == 2

NextApp ==
    \/ issued < MaxAppCalls /\ CreateMemoClick
    \/ \E p \in CreateSlots : SaveMemoGet(p)
    \/ \E p \in CreateSlots : CreateSaveDone(p)
    \/ \E p \in CreateSlots : CreateLoadResolves(p)
    \/ Render
    \/ Effects
    \/ FetchResolve
    \/ Edit("v1")
    \/ issued < MaxAppCalls /\ \E p \in AutosaveCalls : TimerFire(p)
    \/ \E p \in AutosaveCalls : SaveMemoGet(p)
    \/ \E p \in AutosaveCalls : SaveMemoSet(p)
    \/ Tick
    \/ issued < MaxAppCalls /\ DeleteMemoStart
    \/ \E p \in DeleteSlots : DeleteMemoGet(p)
    \/ \E p \in DeleteSlots : DeleteStorageDone(p)
    \/ \E p \in DeleteSlots : DeleteLoadResolves(p)
    \/ issued < MaxAppCalls /\ \E file \in {FileEmptyStrings, FileBackdated} : HandleImportFile(file)
    \/ \E p \in ImportSlots : SaveMemoGet(p)
    \/ \E p \in ImportSlots : ImportSaveDone(p)

SpecApp == InitApp /\ [][NextApp]_vars

\* C14: every stored record has a non-empty id equal to the key it is stored
\* under and a non-empty domain.
C14_IdsAndDomainsNonEmpty ==
    \A k \in Range(store.keys) :
        /\ k # ""
        /\ store.vals[k].id = k
        /\ store.vals[k].domain # ""

\* C15: every stored record has updatedAt >= createdAt.
C15_UpdatedNotBeforeCreated ==
    \A k \in Range(store.keys) : store.vals[k].updatedAt >= store.vals[k].createdAt

----------------------------------------------------------------------------
(* SpecBrowse: the panel opened beside two tabs of two sites that both have *)
(* notes; the user switches tabs, selects, creates and deletes notes and    *)
(* toggles the view, and the options page imports a file.  No edits.        *)

BrowseStore ==
    LET m1 == Memo("m1", "Note", "v0", "example.com", UrlA, 1, 1)
        m2 == Memo("m2", "Note", "v0", "example.com", UrlB, 2, 2)
        m3 == Memo("m3", "Note", "v0", "other.org", UrlC, 1, 1)
    IN  PutKey(PutKey(PutKey(EmptyStore, "m1", m1), "m2", m2), "m3", m3)

BrowseIds == {"m1", "m2", "m3"}

InitBrowse ==
    /\ isExtension = TRUE
    /\ store = BrowseStore
    /\ calls = [p \in AppCalls |-> Idle]
    /\ ret = [p \in AppCalls |-> NoRet]
    /\ overlapped = FALSE
    /\ expected = BrowseStore.vals
    /\ lastWrite = NoWrite
    /\ issued = 0
    /\ listening = FALSE
    /\ tabs = [t \in Tabs |-> [url |-> IF t = 1 THEN UrlA ELSE UrlC]]
    /\ focused = 1
    /\ badge = [t \in Tabs |-> ""]
    /\ menuTitle = MenuCreate
    /\ handlers = [h \in HandlerIds |-> IdleHandler]
    /\ lastDone = NoneDone
    /\ tabEvents = 0
    /\ InitNoPanel
    /\ currentUrl = Null
    /\ currentTitle = Null
    /\ resolving = 0
    /\ titles = [t \in Tabs |-> IF t = 1 THEN TitleOf(UrlA) ELSE TitleOf(UrlC)]
    /\ nextId = 1
    /\ creating = [p \in CreateSlots |-> NoCreate]
    /\ clicks = <<>>
    /\ panelOpen = {1}
    /\ inbox = <<>>
    /\ importing = NoImports

\* the storage writes of one run
MaxBrowseCalls == 1

\* the tab switches of one run
MaxBrowseNav == 1

NextBrowse ==
    \/ PanelMount
    \/ UpdateTabInfoResolves
    \/ tabEvents < MaxBrowseNav /\ \E t \in Tabs : TabActivated(t)
    \/ Render
    \/ Effects
    \/ FetchResolve
    \/ \E id \in BrowseIds : SelectMemo(id)
    \/ ToggleViewMode
    \/ issued < MaxBrowseCalls /\ DeleteMemoStart
    \/ \E p \in DeleteSlots : DeleteMemoGet(p)
    \/ \E p \in DeleteSlots : DeleteStorageDone(p)
    \/ \E p \in DeleteSlots : DeleteLoadResolves(p)
    \/ issued < MaxBrowseCalls /\ CreateMemoClick
    \/ \E p \in CreateSlots : SaveMemoGet(p)
    \/ \E p \in CreateSlots : CreateSaveDone(p)
    \/ \E p \in CreateSlots : CreateLoadResolves(p)
    \/ issued < MaxBrowseCalls /\ HandleImportFile(FileMixed)
    \/ \E p \in ImportSlots : SaveMemoGet(p)
    \/ \E p \in ImportSlots : ImportSaveDone(p)

SpecBrowse == InitBrowse /\ [][NextBrowse]_vars

\* a step in which the store read of the effect's fetchMemos resolves
FetchStep ==
    /\ mounted /\ mounted'
    /\ fetch.pc = "get" /\ fetch' = NoFetch
    /\ effectOf' = effectOf

\* a step in which the loadMemos of a deleteMemo resolves and deleteMemo ends
DeleteLoadStep(p) ==
    /\ mounted /\ mounted'
    /\ deleting[p].pc = "load" /\ ~deleting[p].orphan
    /\ deleting'[p] = NoDelete

\* the hooks' values once the queued updates are rendered; a load acts on the
\* panel by the updates it queues
Pending == Rendered(Panel)

\* C16: when the list loaded by the effect is not empty and no note is
\* selected, the selected id being absent or referring to no note of the
\* loaded list, the first note of the loaded list becomes the selected one.
C16_AutoSelectWhenNoneSelected ==
    [][FetchStep =>
          LET loaded == LoadedFor(fetch.viewMode, fetch.domain)
          IN  (Len(loaded) > 0 /\ activeMemoId \notin Ids(loaded))
                  => Pending'.activeMemoId = loaded[1].id]_vars

\* C17: a list load leaves the selected id alone while the loaded list holds
\* it, and then the active note is the record of that id; when the loaded
\* list does not hold the selected id, no note is active after the load.
C17_RefreshKeepsSelection ==
    [][\A p \in DeleteSlots \cup {"effect"} :
          (IF p = "effect" THEN FetchStep ELSE DeleteLoadStep(p)) =>
              LET loaded == IF p = "effect"
                            THEN LoadedFor(fetch.viewMode, fetch.domain)
                            ELSE LoadedFor(deleting[p].viewMode, deleting[p].domain)
              IN  activeMemoId # Null =>
                      IF activeMemoId \in Ids(loaded)
                      THEN /\ Pending'.activeMemoId = activeMemoId
                           /\ Pending'.activeMemoId \in Ids(Pending'.memos)
                      ELSE Pending'.activeMemoId \notin Ids(Pending'.memos)]_vars

\* nothing of the panel is in flight
PanelQuiet ==
    /\ mounted /\ resolving = 0 /\ fetch = NoFetch
    /\ queued = <<>> /\ ~EffectsPending(Panel)
    /\ \A p \in CreateSlots : creating[p] = NoCreate
    /\ \A p \in DeleteSlots : deleting[p] = NoDelete

\* C19: in domain view with nothing of the panel in flight, the list shown
\* holds exactly the stored notes of the site of the active tab.
C19_ListIsActiveSiteNotes ==
    (PanelQuiet /\ viewMode = "domain")
        => panelMemos = getMemosByDomainOf(store, Hostname(tabs[focused].url))

----------------------------------------------------------------------------
(* SpecLoad: the list the panel loads, over every store of up to three      *)
(* notes of two sites, every domain and both views.                          *)

LoadIds == {"m1", "m2", "m3"}

\* the sequences of distinct ids (InitLoad keeps the ones in stored order)
LoadKeys ==
    {ks \in UNION {[1..n -> LoadIds] : n \in 0..3} :
        \A i, j \in DOMAIN ks : i # j => ks[i] # ks[j]}

LoadStores ==
    UNION {{[keys |-> ks, vals |-> vs] :
               vs \in [Range(ks) -> {Memo(id, "Note", "v0", d, UrlA, 1, u) :
                                        id \in LoadIds, d \in PanelDomains,
                                        u \in 1..MaxStamp}]} : ks \in LoadKeys}

\* the tabs the panel has resolved domain d from: a page of the site in the
\* active tab, or one whose URL does not parse
LoadTabs(d) ==
    [t \in Tabs |-> [url |-> IF t = 2 THEN UrlC
                             ELSE IF d = Null THEN BadUrl ELSE UrlA]]

\* the panel has mounted, a tab event has given it the page of domain d, in
\* view v, and its effects have run up to the await of loadMemos; one more
\* tab event and one switch of view may follow
InitLoad ==
    /\ isExtension = TRUE
    /\ store \in {st \in LoadStores : /\ \A k \in Range(st.keys) : st.vals[k].id = k
                                      /\ st = ChromeStored(st)}
    /\ calls = [p \in PanelCalls |-> Idle]
    /\ ret = [p \in PanelCalls |-> NoRet]
    /\ overlapped = FALSE
    /\ expected = store.vals
    /\ lastWrite = NoWrite
    /\ issued = 0
    /\ listening = FALSE
    /\ currentDomain \in PanelDomains \cup {Null}
    /\ tabs = LoadTabs(currentDomain)
    /\ focused = IF currentDomain = "other.org" THEN 2 ELSE 1
    /\ badge = [t \in Tabs |-> ""]
    /\ menuTitle = MenuCreate
    /\ handlers = [h \in HandlerIds |-> IdleHandler]
    /\ lastDone = NoneDone
    /\ tabEvents = MaxNav - 1
    /\ mounted = TRUE
    /\ viewMode \in {"domain", "all"}
    /\ panelMemos = <<>>
    /\ activeMemoId = Null
    /\ saveTimeoutRef = 0
    /\ timers = {}
    /\ nextHandle = 1
    /\ clock = 2
    /\ fetch = IF viewMode # "all" /\ currentDomain = Null
               THEN NoFetch
               ELSE [pc |-> "get", domain |-> currentDomain, viewMode |-> viewMode,
                     activeMemoId |-> Null]
    /\ deleting = [p \in DeleteSlots |-> NoDelete]
    /\ queued = <<>>
    /\ titles = [t \in Tabs |-> TitleOf(tabs[t].url)]
    /\ currentUrl = TabTriple(tabs[focused].url, titles[focused])[2]
    /\ currentTitle = TabTriple(tabs[focused].url, titles[focused])[3]
    /\ effectOf = [domain |-> currentDomain, url |-> currentUrl, title |-> currentTitle,
                   viewMode |-> viewMode, activeMemoId |-> Null]
    /\ hist = NoHist
    /\ switches = MaxSwitches - 1
    /\ resolving = 0
    /\ nextId = 1
    /\ creating = [p \in CreateSlots |-> NoCreate]
    /\ clicks = <<>>
    /\ panelOpen = {}
    /\ inbox = <<>>
    /\ importing = NoImports

NextLoad ==
    \/ Render
    \/ Effects
    \/ FetchResolve
    \/ UpdateTabInfoResolves
    \/ \E t \in Tabs : TabActivated(t)
    \/ \E t \in Tabs, url \in NavUrls : TabUrlChanged(t, url)
    \/ ToggleViewMode

SpecLoad == InitLoad /\ [][NextLoad]_vars

\* list holds each record of the set recs once and nothing else
HoldsExactly(list, recs) ==
    /\ Len(list) = Cardinality(recs)
    /\ {list[i] : i \in DOMAIN list} = recs

\* no record of list comes before one with a larger updatedAt
NewestFirst(list) ==
    \A i, j \in DOMAIN list : i < j => list[i].updatedAt >= list[j].updatedAt

StoredRecords == {store.vals[k] : k \in Range(store.keys)}

\* the load for the rendered (domain, viewMode) has resolved and its list is
\* rendered
LoadSettled == mounted /\ fetch = NoFetch /\ queued = <<>> /\ ~EffectsPending(Panel)

\* C18: once the load for (domain, viewMode) has resolved, the list is: in
\* domain view with a domain, exactly the stored records of that domain,
\* newest first; in domain view with no domain, empty; in the "all" view,
\* every stored record, newest first.
C18_LoadedList ==
    LoadSettled =>
        IF viewMode = "all"
        THEN HoldsExactly(panelMemos, StoredRecords) /\ NewestFirst(panelMemos)
        ELSE IF currentDomain # Null
        THEN /\ HoldsExactly(panelMemos, {r \in StoredRecords : r.domain = currentDomain})
             /\ NewestFirst(panelMemos)
        ELSE panelMemos = <<>>

\* the "all" list of a store of three notes of two sites whose key order is
\* not newest first
C18_Witness ==
    /\ LoadSettled /\ viewMode = "all"
    /\ Len(panelMemos) = 3
    /\ panelMemos # ObjectValues(store)
    /\ \E i, j \in DOMAIN panelMemos : panelMemos[i].domain # panelMemos[j].domain

\* the list of one site's notes out of a store that holds the other's too
C18_WitnessDomain ==
    /\ LoadSettled /\ viewMode = "domain" /\ currentDomain # Null
    /\ Len(panelMemos) = 2
    /\ Len(store.keys) = 3
    /\ panelMemos[1].updatedAt > panelMemos[2].updatedAt

----------------------------------------------------------------------------
(* SpecResolver: useCurrentDomain beside two tabs, one of which exposes no  *)
(* URL at first; the tabs are activated, navigate and set their titles.     *)

InitResolver ==
    /\ isExtension = TRUE
    /\ store = AppStore
    /\ calls = [p \in Callers |-> Idle]
    /\ ret = [p \in Callers |-> NoRet]
    /\ overlapped = FALSE
    /\ expected = [k \in {} |-> k]
    /\ lastWrite = NoWrite
    /\ issued = 0
    /\ listening = FALSE
    /\ tabs = [t \in Tabs |-> [url |-> IF t = 1 THEN UrlA ELSE NoUrl]]
    /\ focused = 1
    /\ badge = [t \in Tabs |-> ""]
    /\ menuTitle = MenuCreate
    /\ handlers = [h \in HandlerIds |-> IdleHandler]
    /\ lastDone = NoneDone
    /\ tabEvents = 0
    /\ InitNoPanel
    /\ currentUrl = Null
    /\ currentTitle = Null
    /\ resolving = 0
    /\ titles = [t \in Tabs |-> IF t = 1 THEN TitleOf(UrlA) ELSE ""]
    /\ nextId = 1
    /\ creating = [p \in CreateSlots |-> NoCreate]
    /\ clicks = <<>>
    /\ panelOpen = {1}
    /\ inbox = <<>>
    /\ importing = NoImports

NextResolver ==
    \/ PanelMount
    \/ UpdateTabInfoResolves
    \/ Render
    \/ Effects
    \/ FetchResolve
    \/ \E t \in Tabs : TabActivated(t)
    \/ \E t \in Tabs, url \in NavUrls : TabUrlChanged(t, url)
    \/ \E t \in Tabs : TabTitleChanged(t)
    \/ ToggleViewMode

SpecResolver == InitResolver /\ [][NextResolver]_vars

\* the triple of the active tab: hostname, url and title, or nothing when
\* the tab has no URL or one that does not parse
TripleOfActiveTab ==
    LET url == tabs[focused].url
    IN  IF Falsy(url) \/ ~Parseable(url)
        THEN <<Null, Null, Null>>
        ELSE <<Hostname(url), url, titles[focused]>>

\* the resolver's effect has run and every call of updateTabInfo has
\* resolved and is rendered
Resolved == Registered /\ resolving = 0 /\ queued = <<>>

\* C20: with the panel mounted and every call of updateTabInfo resolved, the
\* triple is that of the active tab: its hostname, its URL and its title.
C20_TripleIsActiveTab ==
    Resolved => <<currentDomain, currentUrl, currentTitle>> = TripleOfActiveTab

\* What App renders: without a domain the message asking to open a website,
\* otherwise the list and the editor
NoContext == "no-context"
Screen(d) == IF Falsy(d) THEN NoContext ELSE "notes"

\* a call of updateTabInfo resolves on an active tab whose URL does not parse
InvalidUrlStep ==
    /\ UpdateTabInfoResolves
    /\ mounted
    /\ ~Falsy(tabs[focused].url)
    /\ ~Parseable(tabs[focused].url)

\* C21: domain, url and title are null together or not at all, and when
\* updateTabInfo resolves on an active tab whose URL cannot be parsed the
\* call completes with all three set to null and the panel, once it has
\* rendered, shows the no-active-context screen, whatever list it holds.
C21_InvalidUrlClearsContext ==
    /\ []((currentDomain = Null) = (currentUrl = Null)
          /\ (currentUrl = Null) = (currentTitle = Null))
    /\ [][InvalidUrlStep =>
            /\ <<Pending'.domain, Pending'.url, Pending'.title>> = <<Null, Null, Null>>
            /\ Screen(Pending'.domain) = NoContext]_vars
    /\ [][(Render /\ LastSet("domain", currentDomain) = Null) =>
            /\ <<currentDomain', currentUrl', currentTitle'>> = <<Null, Null, Null>>
            /\ Screen(currentDomain') = NoContext]_vars

\* the active tab went from a page with notes to a URL that does not parse:
\* the context is cleared while the list of the page before is still held
C21_Witness ==
    /\ Resolved
    /\ tabs[focused].url = BadUrl
    /\ currentDomain = Null
    /\ panelMemos # <<>>
    /\ Screen(currentDomain) = NoContext

(***************************************************************************)
(* Export and import of a backup (options page)                            *)
(***************************************************************************)

\* JSON.parse(JSON.stringify(memo)) for a stored record: strings, finite
\* numbers and booleans come back as they went in, each under its own key
JsonOf(memo) ==
    [has |-> AllFields, odd |-> {}, id |-> memo.id, title |-> memo.title, content |-> memo.content,
     domain |-> memo.domain, url |-> memo.url, isUrlSpecific |-> memo.isUrlSpecific,
     createdAt |-> memo.createdAt, updatedAt |-> memo.updatedAt]

\* the downloaded website_notes_backup.json: the array getAllMemos returned
BackupFile(rows) == [i \in 1..Len(rows) |-> JsonOf(rows[i])]

\* the same array with its elements in another order
Reordered(file) ==
    { [i \in 1..Len(file) |-> file[f[i]]] :
        f \in { g \in [1..Len(file) -> 1..Len(file)] :
                  \A i, j \in 1..Len(file) : g[i] = g[j] => i = j } }

\* handleExport up to its await
HandleExport ==
    /\ ret["export"] = NoRet
    /\ importing = NoImports
    /\ GetAllMemosCall("export")

\* the extension's storage is empty again (a fresh profile, or the extension
\* installed anew) once the backup is on disk
FreshStore ==
    /\ ret["export"] # NoRet
    /\ importing = NoImports
    /\ store # NoMemos
    /\ store' = NoMemos
    /\ expected' = [k \in {} |-> k]
    /\ UNCHANGED <<isExtension, calls, ret, overlapped, lastWrite, issued>>
    /\ UNCHANGED bgVars
    /\ UNCHANGED panelVars
    /\ UNCHANGED extVars

\* the user picks the backup, its array in any order, with the store empty,
\* once
ImportBackup ==
    /\ ret["export"] # NoRet
    /\ importing = NoImports
    /\ store = NoMemos
    /\ \E file \in Reordered(BackupFile(ret["export"].rows)) : HandleImportFile(file)

\* stored records: every field present, titles empty or not, both values of
\* isUrlSpecific, timestamps 0 and later
RoundTripIds == {"m1", "m2"}
RoundTripRecords(id) ==
    { [id |-> id, title |-> t, content |-> "v0", domain |-> "example.com", url |-> UrlA,
       isUrlSpecific |-> b, createdAt |-> c, updatedAt |-> 1] :
        t \in {"", "Note"}, b \in BOOLEAN, c \in {0, 1} }
RoundTripStores ==
    { [keys |-> ks, vals |-> v] :
        ks \in { q \in UNION { [1..n -> RoundTripIds] : n \in 0..2 } :
                   \A i, j \in DOMAIN q : q[i] = q[j] => i = j },
        v \in UNION { [S -> UNION { RoundTripRecords(id) : id \in RoundTripIds }] :
                        S \in SUBSET RoundTripIds } }

InitRoundTrip ==
    /\ isExtension = TRUE
    /\ store \in { st \in RoundTripStores :
                     /\ DOMAIN st.vals = Range(st.keys)
                     /\ \A k \in DOMAIN st.vals : st.vals[k].id = k
                     /\ st = ChromeStored(st) }
    /\ calls = [p \in {"export"} \cup ImportSlots |-> Idle]
    /\ ret = [p \in {"export"} \cup ImportSlots |-> NoRet]
    /\ overlapped = FALSE
    /\ expected = store.vals
    /\ lastWrite = NoWrite
    /\ issued = 0
    /\ InitNoBackground
    /\ InitNoPanel
    /\ InitNoExt

NextRoundTrip ==
    \/ HandleExport
    \/ GetAllMemosGet("export")
    \/ FreshStore
    \/ ImportBackup
    \/ \E p \in ImportSlots : SaveMemoGet(p)
    \/ \E p \in ImportSlots : ImportSaveDone(p)

SpecRoundTrip == InitRoundTrip /\ [][NextRoundTrip]_vars

\* the import of the backup has run to its end
Restored == importing["import1"].pc = "done" /\ ret["export"] # NoRet

\* the store maps the same ids to the same records as the exported one
SameMapping(vals, want) ==
    /\ DOMAIN vals = DOMAIN want
    /\ \A k \in DOMAIN want : vals[k] = want[k]

\* C22: exporting a store whose records have all eight fields and importing
\* the array, in any order, into an empty store gives back the same mapping
\* from id to record.
C22_RoundTrip == Restored => SameMapping(store.vals, ret["export"].want)

\* C22 for stores in which no title is the empty string
C22_RoundTripTitled ==
    (Restored /\ \A k \in DOMAIN ret["export"].want : ret["export"].want[k].title # "")
        => SameMapping(store.vals, ret["export"].want)

\* a backup of two notes was imported in the other order
C22_WitnessReordered ==
    /\ Restored
    /\ Len(importing["import1"].file) = 2
    /\ importing["import1"].file[1].id # ret["export"].rows[1].id
    /\ SameMapping(store.vals, ret["export"].want)

(***************************************************************************)
(* Import of arrays with malformed elements                                *)
(***************************************************************************)

\* array elements: three well-formed ones (one with every field, one with
\* the three required fields only and the id of a stored note, one whose
\* title and isUrlSpecific are no string and no boolean), and three malformed
\* ones (no domain, no content, and null)
ElemFull == ImportElem(AllFields, "1", "example.com", 1, 1)
ElemBare == ImportElem({"id", "domain", "content"}, "m1", "other.org", 0, 0)
ElemOdd ==
    [ImportElem(AllFields \ {"title", "isUrlSpecific"}, "x1", "example.com", 1, 1)
        EXCEPT !.odd = {"title", "isUrlSpecific"}, !.title = "5"]
ElemNoDomain == ImportElem(AllFields \ {"domain"}, "x2", "", 1, 1)
ElemNoContent == ImportElem(AllFields \ {"content"}, "x3", "example.com", 1, 1)
ElemNull == ImportElem({}, "", "", 0, 0)
Elems == {ElemFull, ElemBare, ElemOdd, ElemNoDomain, ElemNoContent, ElemNull}

\* the arrays of at most this many elements are imported
MaxFileLen == 2
Files == UNION { [1..n -> Elems] : n \in 0..MaxFileLen }

\* Date.now() when the options page opens, later than every timestamp in the
\* arrays
ImportTime == 1498

InitImport ==
    /\ isExtension = TRUE
    /\ store = AppStore
    /\ calls = [p \in ImportSlots |-> Idle]
    /\ ret = [p \in ImportSlots |-> NoRet]
    /\ overlapped = FALSE
    /\ expected = store.vals
    /\ lastWrite = NoWrite
    /\ issued = 0
    /\ InitNoBackground
    /\ mounted = FALSE
    /\ currentDomain = Null
    /\ viewMode = "domain"
    /\ panelMemos = <<>>
    /\ activeMemoId = Null
    /\ saveTimeoutRef = 0
    /\ timers = {}
    /\ nextHandle = 1
    /\ clock = ImportTime
    /\ fetch = NoFetch
    /\ deleting = [p \in DeleteSlots |-> NoDelete]
    /\ queued = <<>>
    /\ effectOf = NoEffects
    /\ hist = NoHist
    /\ switches = 0
    /\ InitNoExt

NextImport ==
    \/ \E file \in Files : HandleImportFile(file)
    \/ \E p \in ImportSlots : SaveMemoGet(p)
    \/ \E p \in ImportSlots : ImportSaveDone(p)
    \/ Tick

SpecImport == InitImport /\ [][NextImport]_vars

\* the indices of the elements of file whose id, domain and content are strings
ValidIndices(file) == { i \in 1..Len(file) : ValidElem(file[i]) }

\* the elements of file whose id, domain and content are strings, in array order
ValidSeq(file) == SelectSeq(file, LAMBDA e : ValidElem(e))

\* the reader.onload calls that have run to their setStatus
Imported == {p \in ImportSlots : importing[p].pc = "done"}

\* the call p handed exactly the well-formed elements of its array to
\* saveMemo, in array order, and counted each
SkipsMalformed(p) ==
    /\ importing[p].count = Cardinality(ValidIndices(importing[p].file))
    /\ Len(importing[p].sent) = importing[p].count
    /\ \A n \in 1..Len(importing[p].sent) :
          importing[p].sent[n].id = ValidSeq(importing[p].file)[n].id

\* every record the call p handed to saveMemo is stored under its id, unless
\* a later write has put another record there
Persisted(p) ==
    \A n \in 1..Len(importing[p].sent) :
        /\ importing[p].sent[n].id \in DOMAIN store.vals
        /\ \/ store.vals[importing[p].sent[n].id] = importing[p].sent[n]
           \/ expected[importing[p].sent[n].id] # importing[p].sent[n]

\* C23 (as claimed): when an import has run to its end, it has handed exactly
\* the well-formed elements of its array to saveMemo, malformed elements
\* having been passed over wherever they stand, every one of them is stored
\* under its id, and the count reported is their number.
C23_ImportSkipsMalformed ==
    \A p \in Imported : SkipsMalformed(p) /\ Persisted(p)

\* C23 without the store: malformed elements are passed over, the well-formed
\* ones are handed to saveMemo and counted
C23_CountsWellFormed == \A p \in Imported : SkipsMalformed(p)

\* C23 while no storage call was issued with another one in flight
C23_ImportAlonePersists ==
    ~overlapped => \A p \in Imported : SkipsMalformed(p) /\ Persisted(p)

\* an array with a malformed element before a well-formed one was imported
C23_Witness ==
    \E p \in Imported :
        /\ \E i, j \in 1..Len(importing[p].file) :
              /\ i < j
              /\ ~ValidElem(importing[p].file[i])
              /\ ValidElem(importing[p].file[j])
              /\ importing[p].file[j].id \in DOMAIN store.vals
              /\ importing[p].file[i].id \notin DOMAIN store.vals
        /\ importing[p].count = 1

\* two imports ran side by side; each reports one note imported, and the
\* store holds the note of one of them only
C23_LostImport ==
    /\ Imported = ImportSlots
    /\ \A p \in ImportSlots : importing[p].count = 1
    /\ \E p \in ImportSlots : importing[p].sent[1].id \notin DOMAIN store.vals

\* record r has the id, domain and content of element e, and the default of
\* every optional field that e lacks, the time being one from lo to hi
Defaulted(e, r, lo, hi) ==
    /\ r.id = e.id /\ r.domain = e.domain /\ r.content = e.content
    /\ "title" \notin e.has \cup e.odd => r.title = "Untitled"
    /\ "url" \notin e.has \cup e.odd => r.url = ""
    /\ "createdAt" \notin e.has \cup e.odd => r.createdAt \in lo..hi
    /\ "updatedAt" \notin e.has \cup e.odd => r.updatedAt \in lo..hi
    /\ "isUrlSpecific" \notin e.has \cup e.odd => r.isUrlSpecific = FALSE

\* a step in which the loop of call p reaches `await saveMemo(sanitizedMemo)`
ImportSends(p) ==
    /\ importing'[p].pc = "save"
    /\ importing[p].pc = "none" \/ Len(importing'[p].sent) > Len(importing[p].sent)

\* a step in which the chrome.storage.local.set of call p's saveMemo completes
ImportStores(p) ==
    /\ importing[p].pc = "save"
    /\ importing'[p].count = importing[p].count + 1

\* C24: the record handed to saveMemo for a well-formed element keeps the
\* element's id, domain and content and has "Untitled", "", false and the
\* time of the step (the clock as the step finds it, or as it leaves it)
\* for a missing title, url, isUrlSpecific and timestamp, and it is this
\* record that the write of saveMemo stores under the id.
C24_MissingFieldsDefaulted ==
    [][\A p \in ImportSlots :
          /\ ImportSends(p) =>
                Defaulted(importing'[p].file[importing'[p].i], calls'[p].memo, clock, clock')
          /\ ImportStores(p) =>
                /\ calls[p].memo.id \in DOMAIN store'.vals
                /\ store'.vals[calls[p].memo.id] = calls[p].memo]_vars

\* an element with id, domain and content only was imported some time after
\* the page opened, and is stored with the defaults, the two timestamps read
\* one after the other
C24_Witness ==
    \E p \in Imported :
        /\ importing[p].file = <<ElemBare>>
        /\ store.vals["m1"] = importing[p].sent[1]
        /\ store.vals["m1"].title = "Untitled"
        /\ store.vals["m1"].url = ""
        /\ store.vals["m1"].isUrlSpecific = FALSE
        /\ store.vals["m1"].createdAt > ImportTime
        /\ store.vals["m1"].updatedAt = store.vals["m1"].createdAt + 1
        /\ store.vals["m1"].domain = "other.org"

(***************************************************************************)
(* createMemo                                                              *)
(***************************************************************************)

\* a call of createMemo passes its guard and reaches saveMemo(newMemo)
CreateStep(p) == creating[p].pc = "none" /\ creating'[p].pc = "save"

\* a metadata header with the URL, the page title and a timestamp
HeaderWith(url, title, stamp) ==
    "---\nURL: " \o url \o "\ntitle: " \o title \o "\ncreated_at: " \o stamp \o "\n---\n\n"

\* the record a call of createMemo hands to saveMemo, but for its two time
\* stamps: an id no stored record has, the domain and url of the render the
\* call belongs to, isUrlSpecific false, a header with that url, that title
\* and the formatted time of the call; one id is generated
CreatedRecord(p, c) ==
    LET m == creating'[p].memo
    IN  /\ ~Falsy(c.domain) /\ ~Falsy(c.url)
        /\ m.id \notin DOMAIN store.vals
        /\ \A i \in 1..Len(panelMemos) : panelMemos[i].id # m.id
        /\ m.domain = c.domain
        /\ m.url = c.url
        /\ m.isUrlSpecific = FALSE
        /\ m.content = HeaderWith(c.url, IF c.title = Null THEN "" ELSE c.title,
                                  FormatDate(clock))
        /\ calls'[p].op = "save"
        /\ calls'[p].memo = m
        /\ nextId' = nextId + 1

\* the saveMemo of createMemo call p completes: the store, which did not
\* hold the id, holds the record under it
CreatedStored(p) ==
    CreateSaveDone(p) =>
        /\ creating[p].memo.id \in DOMAIN store'.vals
        /\ store'.vals[creating[p].memo.id] = creating[p].memo
        /\ creating[p].memo.id \notin DOMAIN store.vals

\* C25 (as claimed): a call of createMemo with a domain and a url builds one
\* record with an id no stored record has, the domain and url the resolver
\* holds at the call, isUrlSpecific false, createdAt equal to updatedAt and
\* a header with that url, the resolved title and the formatted creation
\* time, and hands it to saveMemo, one id being generated; when that
\* saveMemo completes the store, which did not hold the id, holds the record
\* under it.
C25_CreatePersistsOneRecord ==
    [][\A p \in CreateSlots :
          /\ CreateStep(p) =>
                /\ CreatedRecord(p, Closure(Panel))
                /\ creating'[p].memo.createdAt = creating'[p].memo.updatedAt
                /\ creating'[p].memo.createdAt = clock
          /\ CreatedStored(p)]_vars

\* C25 but for the time stamps, and with the domain, url and title of the
\* render the call belongs to (the last one for a click on "New Note", the
\* one whose effects ran last for a CREATE_MEMO message): createdAt and
\* updatedAt are two reads of the clock, the second not before the first
C25_CreateStampsInOrder ==
    [][\A p \in CreateSlots :
          /\ CreateStep(p) =>
                /\ CreatedRecord(p, IF inbox' # inbox THEN effectOf ELSE Closure(Panel))
                /\ clock <= creating'[p].memo.createdAt
                /\ creating'[p].memo.createdAt <= creating'[p].memo.updatedAt
                /\ creating'[p].memo.updatedAt = clock'
          /\ CreatedStored(p)]_vars

\* a note created while the focused tab was not the page the resolver held
C25_Witness ==
    \E p \in CreateSlots :
        /\ creating[p].pc = "load"
        /\ creating[p].memo.id \in DOMAIN store.vals
        /\ creating[p].memo.url # tabs[focused].url
        /\ creating[p].memo.url \in PageUrls

(***************************************************************************)
(* Autosave commits                                                        *)
(***************************************************************************)

\* the fields an edit leaves alone
Frame(r) == <<r.id, r.domain, r.url, r.isUrlSpecific, r.createdAt>>

\* the saveMemo of autosave call p completes on a note the store holds
AutosaveCommit(p) ==
    /\ SaveMemoSet(p)
    /\ calls[p].memo.id \in DOMAIN store.vals

\* C26: when the saveMemo of an autosave completes on a stored note, the
\* stored record has the same id, domain, url, isUrlSpecific and createdAt
\* after the write as before it.
C26_CommitKeepsFrame ==
    [][\A p \in AutosaveCalls :
          AutosaveCommit(p) =>
              Frame(store'.vals[calls[p].memo.id]) = Frame(store.vals[calls[p].memo.id])]_vars

\* C26 while the options page has imported nothing
C26_CommitKeepsFrameNoImport ==
    [][\A p \in AutosaveCalls :
          (AutosaveCommit(p) /\ importing = NoImports) =>
              Frame(store'.vals[calls[p].memo.id]) = Frame(store.vals[calls[p].memo.id])]_vars

(***************************************************************************)
(* SpecDelete: the panel open on a site with one note, which the user edits *)
(* and then deletes; no edit is made once the deletion has been confirmed.  *)
(***************************************************************************)

\* the user has not confirmed a deletion yet
NoDeleteYet == \A p \in DeleteSlots : deleting[p] = NoDelete /\ ret[p] = NoRet

NextDelete ==
    \/ NoDeleteYet /\ Edit("v1")
    \/ \E p \in AutosaveCalls : TimerFire(p)
    \/ \E p \in AutosaveCalls : SaveMemoGet(p)
    \/ \E p \in AutosaveCalls : SaveMemoSet(p)
    \/ Tick
    \/ NoDeleteYet /\ DeleteMemoStart
    \/ \E p \in DeleteSlots : DeleteMemoGet(p)
    \/ \E p \in DeleteSlots : DeleteStorageDone(p)
    \/ \E p \in DeleteSlots : DeleteLoadResolves(p)
    \/ Render
    \/ Effects
    \/ FetchResolve

SpecDelete == InitApp /\ [][NextDelete]_vars

\* deleteMemo("m1") has run to its end
DeleteCompleted ==
    /\ \A p \in DeleteSlots : deleting[p] = NoDelete
    /\ \E p \in DeleteSlots : ret[p] # NoRet

\* C27: once deleteMemo(id) has completed the store holds no record with that
\* id, whatever autosave was pending or in flight when the deletion started.
C27_DeletedStaysDeleted == DeleteCompleted => "m1" \notin DOMAIN store.vals

\* C27 for the pending autosave: the step that starts a deletion leaves no
\* autosave timer pending, so no saveMemo starts after it
C27_PendingAutosaveCancelled ==
    [][(\E p \in DeleteSlots : deleting[p] = NoDelete /\ deleting'[p] # NoDelete)
          => timers' = {}]_vars

\* C27 when no saveMemo of an autosave was in flight at the end of the
\* deletion's storage write
C27_DeletedUnlessInFlight ==
    (DeleteCompleted /\ lastWrite.op = "delete") => "m1" \notin DOMAIN store.vals

(***************************************************************************)
(* CREATE_MEMO and the page it is for                                      *)
(***************************************************************************)

\* the mounted panel's listener takes a CREATE_MEMO message
CreateMessageStep ==
    /\ PanelHandleMessage
    /\ Registered
    /\ Head(inbox).type = "CREATE_MEMO"

\* a createMemo call starts for a note of the page at url
CreatesFor(url) ==
    \E p \in CreateSlots :
        /\ CreateStep(p)
        /\ creating'[p].memo.url = url
        /\ creating'[p].memo.domain = Hostname(url)

\* C28: when the panel handles a CREATE_MEMO message a note is created whose
\* url is the url the message carries, that of the tab the menu was clicked
\* on, and whose domain is that url's hostname, whatever page the panel has
\* resolved.
C28_CreateIsForClickedTab ==
    [][CreateMessageStep => CreatesFor(Head(inbox).url)]_vars

\* C28 when the panel has resolved the page the message names
C28_CreateWhenResolvedSame ==
    [][(CreateMessageStep /\ effectOf.url = Head(inbox).url) =>
          CreatesFor(Head(inbox).url)]_vars

(***************************************************************************)
(* Order of the panel's list                                               *)
(***************************************************************************)

\* C29: the list the panel holds is sorted by updatedAt, newest first, in
\* every state, so its first element is the most recently updated note.
C29_ListNewestFirst ==
    \A i, j \in DOMAIN panelMemos :
        i < j => panelMemos[i].updatedAt >= panelMemos[j].updatedAt

\* C29 for the lists the panel loads: each step that resolves a load leaves
\* a list to render that is newest first
C29_LoadedNewestFirst == [][FetchStep => NewestFirst(Pending'.memos)]_vars

(***************************************************************************)
(* Badges of the tabs that are not focused                                 *)
(***************************************************************************)

\* no invocation of a notifier listener is running
NotifierQuiet == \A h \in HandlerIds : ~Busy(h)

\* C30: whenever no notifier handler is in flight, the badge of every tab
\* that has a URL, focused or not, is the count of the stored notes with that
\* URL, empty when there is none.
C30_EveryTabBadgeCurrent ==
    NotifierQuiet =>
        \A t \in Tabs : tabs[t].url # NoUrl => badge[t] = CountText(tabs[t].url)

\* C30 for the focused tab after a store change handled with no other event
\* in between
C30_FocusedTabBadgeCurrent ==
    (NotifierQuiet /\ lastDone.kind = "changed") =>
        badge[focused] = CountText(tabs[focused].url)

====
